---- MODULE Spec2Model ----
(***************************************************************************)
(* Model of the 2D restaurant floor plan renderer                          *)
(* (restaurant_floorplan_modern.cpp, src/unnamed/part_000 lines 409-1256): *)
(* the DrawBuffer vertex batches, the FloorPlan scene with its projection  *)
(* and overlay passes, and the main loop that drives them.                 *)
(*                                                                         *)
(* Numbers.  The program computes in 32-bit floats.  The model computes    *)
(* the same expressions exactly: a scale factor is an integer count of     *)
(* 1/ScaleDen (every w/1200 and h/800 with integer w,h is such a count),   *)
(* a scaled world coordinate wx*sx is an integer count of 1/ScaleDen, and  *)
(* NDC and pixel coordinates are reduced fractions <<n, d>>.  cos and sin  *)
(* are kept symbolic: a vertex or arc point is (x + cos(a)*rad,            *)
(* y + sin(a)*rad) with the angle a = 2*pi*k/n stored as <<k, n>>.         *)
(***************************************************************************)
EXTENDS Integers, Sequences, FiniteSets, TLC

\* ------------------------------------------------------------------ bounds
\* Input events (resize callbacks, widget clicks, close requests) delivered
\* over one run of the main loop.
MaxEvents == 2
\* Framebuffer sizes a resize callback can deliver: 0 x 0 (minimised), the
\* window's creation size, (1200 * i) x 800 for i in 1..MaxWMult and
\* 1200 x (400 * j) for j in 1..MaxHMult.
MaxWMult == 2
MaxHMult == 2
\* Helper calls (pushVertex, addRect*, addCircleTriangles) a client of a
\* DrawBuffer makes between two begin() calls.
MaxCalls == 2

\* ------------------------------------------------------- program constants
LogicalWidth == 1200
LogicalHeight == 800
InitW == 1200
InitH == 800
DefaultCanvasW == 1200
DefaultCanvasH == 800
WinW == 1280
WinH == 800
VboBytes == 1048576
FloatsPerVertex == 8
SizeofFloat == 4
CircleSegments == 20
SwingSegments == 20
DimOffset == 5

\* Unit of the fixed-point scale factors and scaled coordinates:
\* lcm(1200, 800), so that w/1200 and h/800 are whole counts of it.
ScaleDen == 2 * LogicalWidth
HStep == LogicalHeight \div 2

Sizes == {<<0, 0>>, <<WinW, WinH>>}
         \cup {<<LogicalWidth * i, LogicalHeight>> : i \in 1..MaxWMult}
         \cup {<<LogicalWidth, HStep * j>> : j \in 1..MaxHMult}

\* ---------------------------------------------------------------- helpers
Abs(n) == IF n < 0 THEN -n ELSE n

RECURSIVE GCD(_, _)
GCD(a, b) == IF b = 0 THEN a ELSE GCD(b, a % b)

\* The fraction n/d (d # 0) in lowest terms with a positive denominator.
Rat(n, d) ==
    LET g == GCD(Abs(n), Abs(d))
        s == IF d < 0 THEN -1 ELSE 1
    IN  <<(s * n) \div g, (s * d) \div g>>

RatLess(p, q) == p[1] * q[2] < q[1] * p[2]

RECURSIVE Flatten(_)
Flatten(ss) == IF ss = <<>> THEN <<>> ELSE Head(ss) \o Flatten(Tail(ss))

\* ------------------------------------------------------------ scene items
\* Colours are <<r, g, b, a>> in thousandths.
White == <<1000, 1000, 1000, 1000>>

\* RectItem {x,y,w,h,color,label,type="A",texture=0}
RectItem(x, y, w, h, color, label) ==
    [x |-> x, y |-> y, w |-> w, h |-> h, color |-> color, label |-> label,
     type |-> "A", texture |-> 0]

RectItemT(x, y, w, h, color, label, type) ==
    [RectItem(x, y, w, h, color, label) EXCEPT !.type = type]

\* CircleItem {x,y,r,color,label,texture=0}
CircleItem(x, y, r, color, label) ==
    [x |-> x, y |-> y, r |-> r, color |-> color, label |-> label, texture |-> 0]

\* DoorItem {x,y,w,h,hinge,label,texture=0}: aggregate initialisation with
\* five initialisers fills x,y,w,h and hinge; label stays empty.
DoorItem(x, y, w, h, hinge) ==
    [x |-> x, y |-> y, w |-> w, h |-> h, hinge |-> hinge, label |-> "",
     texture |-> 0]

CollNames == {"floor", "walls", "kitchen", "bar", "windows", "restrooms", "fire",
              "tablesRect", "tablesCircle", "doors", "drains"}

\* A FloorPlan as constructed: every collection empty.
EmptyScene == [c \in CollNames |-> <<>>]

\* cosf/sinf of c/4 of a turn, c = 0..3, as used for the chair positions;
\* the float results at pi/2, pi, 3pi/2 differ from 0 by less than 1e-7 and
\* vanish when added to the table centre.
Cos4(c) == CASE c = 0 -> 1 [] c = 1 -> 0 [] c = 2 -> -1 [] OTHER -> 0
Sin4(c) == CASE c = 0 -> 0 [] c = 1 -> 1 [] c = 2 -> 0 [] OTHER -> -1

ExtWallCol == <<172, 243, 314, 1000>>
IntWallCol == <<365, 427, 494, 1000>>
TableCol == <<902, 494, 133, 1000>>
ChairCol == <<100, 540, 220, 1000>>
WindowCol == <<204, 596, 859, 1000>>
ToiletWinCol == <<529, 808, 922, 1000>>
RestroomCol == <<608, 357, 714, 1000>>
FireCol == <<906, 298, 196, 1000>>
DrainCol == <<0, 500, 1000, 1000>>
SofaCol == <<320, 200, 100, 1000>>
CushionCol == <<450, 300, 180, 1000>>

\* The clear() calls at the top of setupDefaultLayout, with the drains
\* collection forgotten.
ClearAllKeepDrains(sc) == [c \in CollNames |-> IF c = "drains" THEN sc[c] ELSE <<>>]

\* The clear() calls at the top of setupDefaultLayout.
ClearAll(sc) == [c \in CollNames |-> <<>>]

\* One table with its two chairs (the body of the leftY / rightY loops).
TableRow(X, y) ==
    LET tableSize == 50
        chairW == 12
        chairH == 20
    IN  << RectItem(X, y, tableSize, tableSize, TableCol, "Table"),
           RectItem(X - chairW, y + (tableSize - chairH) \div 2, chairW, chairH, ChairCol, ""),
           RectItem(X + tableSize, y + (tableSize - chairH) \div 2, chairW, chairH, ChairCol, "") >>

\* The four chairs of round table i.
RoundChairs(i) ==
    LET tx == 550 + i * 170
        ty == 600
        chairDist == 60 + 15
        chairW == 12
        chairH == 20
    IN  [k \in 1..4 |->
            RectItem(tx + Cos4(k - 1) * chairDist - chairW \div 2,
                     ty + Sin4(k - 1) * chairDist - chairH \div 2,
                     chairW, chairH, ChairCol, "Chair")]

\* The push_back calls of setupDefaultLayout, appended to the collections of sc
\* in source order.
PushDefaults(sc) ==
    [sc EXCEPT
       !.floor = @ \o << RectItem(50, 50, 1100, 700, ExtWallCol, "Floor") >>,
       !.walls = @ \o
         << RectItem(50, 50, 15, 700, ExtWallCol, "Exterior Wall"),
            RectItem(50, 50, 1100, 15, ExtWallCol, "Exterior Wall"),
            RectItem(1135, 50, 15, 700, ExtWallCol, "Exterior Wall"),
            RectItem(50, 750, 1100, 15, ExtWallCol, "Exterior Wall"),
            RectItem(400, 50, 5, 350, IntWallCol, "Interior  Wall"),
            RectItem(400, 470, 5, 295, IntWallCol, "Interior  Wall"),
            RectItem(850, 450, 3, 300, IntWallCol, "Interior Walll"),
            RectItem(853, 550, 10, 100, <<50, 50, 50, 1000>>, "TV") >>,
       !.kitchen = @ \o
         << RectItem(100, 100, 200, 80, <<500, 550, 550, 1000>>, "Preperation Area"),
            RectItem(100, 200, 150, 60, FireCol, "Cooking"),
            RectItem(100, 280, 120, 50, WindowCol, "Sink"),
            RectItem(280, 100, 80, 40, <<608, 353, 714, 1000>>, "Hand Wash"),
            RectItem(100, 350, 250, 120, <<204, 255, 369, 1000>>, "Storeroom") >>,
       !.drains = @ \o
         << CircleItem(150, 150, 6, DrainCol, "Drain 1"),
            CircleItem(200, 300, 6, DrainCol, "Drain 2"),
            CircleItem(300, 350, 6, DrainCol, "Drain 3") >>,
       !.bar = @ \o << RectItem(935, 100, 25, 250, <<827, 329, 0, 1000>>, "Bar Counter") >>,
       !.tablesCircle = @ \o
         [i \in 1..5 |-> CircleItem(920, 120 + (i - 1) * 50, 6, TableCol, "")] \o
         [i \in 1..2 |-> CircleItem(550 + (i - 1) * 170, 600, 60, <<550, 350, 200, 1000>>, "Table")],
       !.windows = @ \o
         << RectItemT(200, 50, 150, 10, WindowCol, "Window", "A"),
            RectItemT(700, 50, 200, 10, WindowCol, "Window", "A"),
            RectItemT(50, 200, 10, 100, WindowCol, "Window", ""),
            RectItemT(500, 755, 200, 10, WindowCol, "Window", "C"),
            RectItem(1110, 70, 40, 60, ToiletWinCol, "Men's Toilet Window"),
            RectItem(1110, 170, 40, 60, ToiletWinCol, "Women's Toilet Window") >>,
       !.restrooms = @ \o
         << RectItem(1030, 50, 120, 100, RestroomCol, "Men's"),
            RectItem(1030, 150, 120, 100, RestroomCol, "Women's") >>,
       !.doors = @ \o
         << DoorItem(500, 50, 80, 10, "Main Entrance"),
            DoorItem(50, 600, 10, 50, "Back Door"),
            DoorItem(1135, 350, 10, 80, "Emergency Exit"),
            DoorItem(400, 400, 10, 70, "Side Door") >>,
       !.fire = @ \o
         << RectItem(390, 230, 12, 20, FireCol, "Fire Extinguisher"),
            RectItem(400, 490, 12, 20, FireCol, "Fire Extinguisher"),
            RectItem(920, 50, 12, 20, FireCol, ""),
            RectItem(1138, 450, 12, 20, FireCol, "Fire Extinguisher") >>,
       !.tablesRect = @ \o
         Flatten(<< TableRow(520, 180), TableRow(520, 260), TableRow(520, 340),
                    TableRow(680, 180), TableRow(680, 260), TableRow(680, 340),
                    RoundChairs(0), RoundChairs(1) >>) \o
         << RectItem(965, 710, 140, 40, SofaCol, "Sofa"),
            RectItem(970, 715, 60, 30, CushionCol, ""),
            RectItem(1040, 715, 60, 30, CushionCol, ""),
            RectItem(1100, 550, 40, 150, SofaCol, "Sofa"),
            RectItem(1105, 555, 30, 60, CushionCol, ""),
            RectItem(1105, 635, 30, 60, CushionCol, ""),
            RectItem(1000, 580, 80, 100, <<600, 400, 200, 1000>>, "Coffee Table") >> ]

\* setupDefaultLayout without its clear() calls.
setupDefaultLayoutNoClear(sc) == PushDefaults(sc)

\* FloorPlan::setupDefaultLayout: clear every collection, then push the
\* built-in layout.
setupDefaultLayout(sc) == PushDefaults(ClearAll(sc))

\* The built-in layout itself, as a value.
DefaultLayout == PushDefaults(EmptyScene)


\* --------------------------------------------------------------- DrawBuffer
GL_TRIANGLES == "GL_TRIANGLES"
GL_LINES == "GL_LINES"

\* One vertex of a batch: position (x + cos(a)*rad, y + sin(a)*rad) with
\* a = 2*pi*ang[1]/ang[2], colour, texture coordinate.  x, y and rad count
\* 1/ScaleDen of a logical unit.  fan is 0 for a single vertex.
Vertex(x, y, col, u, v) ==
    [x |-> x, y |-> y, rad |-> 0, ang |-> <<0, 1>>, col |-> col, u |-> u, v |-> v,
     fan |-> 0]

PolarVertex(cx, cy, r, k, n, col) ==
    [x |-> cx, y |-> cy, rad |-> r, ang |-> <<k % n, n>>, col |-> col, u |-> 0, v |-> 0,
     fan |-> 0]

\* The three pushVertex calls of loop iteration i (0-based) of
\* addCircleTriangles: centre, point at angle i/segments, point at (i+1)/segments.
CircleWedge(cx, cy, r, segments, color, i) ==
    << Vertex(cx, cy, color, 0, 0),
       PolarVertex(cx, cy, r, i, segments, color),
       PolarVertex(cx, cy, r, i + 1, segments, color) >>

\* The 3*segments vertices one call of addCircleTriangles pushes, held in
\* data as one element: they are determined by the call's arguments.
Fan(cx, cy, r, segments, color) ==
    [x |-> cx, y |-> cy, rad |-> r, ang |-> <<0, segments>>, col |-> color,
     u |-> 0, v |-> 0, fan |-> segments]

\* The number of vertices an element of data holds, and the vertices
\* themselves in the order pushed: vertex j (1-based) of a fan is element
\* ((j-1) % 3) + 1 of wedge (j-1) \div 3.
Span(e) == IF e.fan = 0 THEN 1 ELSE 3 * e.fan

FanVertices(e) ==
    IF e.fan = 0 THEN << e >>
    ELSE [j \in 1..(3 * e.fan) |->
            CircleWedge(e.x, e.y, e.rad, e.fan, e.col, (j - 1) \div 3)[((j - 1) % 3) + 1]]

\* The vertices held by elements lo..hi of d.
RECURSIVE SpanSum(_, _, _)
SpanSum(d, lo, hi) ==
    IF lo > hi THEN 0
    ELSE IF lo = hi THEN Span(d[lo])
    ELSE LET mid == (lo + hi) \div 2
         IN  SpanSum(d, lo, mid) + SpanSum(d, mid + 1, hi)

\* struct DrawBuffer as constructed.
NewDrawBuffer == [data |-> <<>>, vao |-> 0, vbo |-> 0, vertexCount |-> 0, texture |-> 0]

\* glBufferData(GL_ARRAY_BUFFER, 1<<10, ...): a store of 1 KiB.
SmallStore == [size |-> VboBytes \div 1024]

\* The data store glBufferData(GL_ARRAY_BUFFER, 1<<20, nullptr, ...) creates in
\* DrawBuffer::init: its size in bytes.
NewStore == [size |-> VboBytes]

\* The GL context after context creation: no buffer objects, no error, no
\* texture bound, useTexture unset (false), full-window viewport.
NewGL == [buffers |-> <<>>, textures |-> <<>>, error |-> "GL_NO_ERROR",
          boundTexture |-> 0, useTexture |-> FALSE, viewport |-> <<WinW, WinH>>]

\* FloorPlan's texture members in the order loadTextures() assigns them, and
\* the path each is loaded from.
TextureMembers == <<"floorTexture", "wallTexture", "kitchenTexture", "barTexture",
                    "tableTexture", "doorTexture">>
TexturePaths == <<"floor.jpg", "wall.jpg", "/home/floor.jpg",
                  "/home/textures/bar.jpg", "textures/table.jpg",
                  "textures/door.jpg">>

\* The member initialisers: GLuint floorTexture = 0; ... doorTexture = 0;
NoTextures == [m \in {TextureMembers[i] : i \in DOMAIN TextureMembers} |-> 0]

\* What stbi_load can return: a null pointer, or pixel data of some w x h.
NoImage == [w |-> 0, h |-> 0, data |-> FALSE]
Images == {[w |-> 1, h |-> 1, data |-> TRUE], [w |-> 64, h |-> 32, data |-> TRUE]}

\* loadTexture that creates and binds the texture object before it looks at
\* the decoded data.
loadTextureGenFirst(path, img, g) ==
    LET tex == Len(g.textures) + 1
        g1 == [g EXCEPT !.textures = Append(@, [w |-> 0, h |-> 0, mipmap |-> FALSE]),
                        !.boundTexture = tex]
        gen == << [call |-> "stbi_load", path |-> path, result |-> img],
                  [call |-> "glGenTextures", tex |-> tex],
                  [call |-> "glBindTexture", tex |-> tex] >>
    IN  IF ~img.data
        THEN << 0, g1, gen, <<"Failed to load texture " \o path>> >>
        ELSE << tex,
                [g1 EXCEPT !.textures[tex] = [w |-> img.w, h |-> img.h, mipmap |-> TRUE]],
                gen \o << [call |-> "glTexImage2D", w |-> img.w, h |-> img.h],
                          [call |-> "glGenerateMipmap"] >>,
                <<>> >>

\* loadTexture(path) on context g when stbi_load returns img.  Result:
\* <<returned handle, context, calls made, diagnostics>>.
loadTexture(path, img, g) ==
    IF ~img.data
    THEN << 0, g, << [call |-> "stbi_load", path |-> path, result |-> img] >>,
            <<"Failed to load texture " \o path>> >>
    ELSE LET tex == Len(g.textures) + 1
         IN  << tex,
                [g EXCEPT !.textures = Append(@, [w |-> img.w, h |-> img.h,
                                                  mipmap |-> TRUE]),
                          !.boundTexture = tex],
                << [call |-> "stbi_load", path |-> path, result |-> img],
                   [call |-> "glGenTextures", tex |-> tex],
                   [call |-> "glBindTexture", tex |-> tex],
                   [call |-> "glTexParameteri", name |-> "GL_TEXTURE_MIN_FILTER"],
                   [call |-> "glTexParameteri", name |-> "GL_TEXTURE_MAG_FILTER"],
                   [call |-> "glTexImage2D", w |-> img.w, h |-> img.h],
                   [call |-> "glGenerateMipmap"],
                   [call |-> "stbi_image_free"] >>,
                <<>> >>

\* static GLuint gProgram = 0
NoProgram == [id |-> 0, linked |-> FALSE]

\* compileShader: what it writes to std::cerr; the shader name is returned
\* whether or not GL_COMPILE_STATUS is set.
compileShader(ok) == IF ok THEN <<>> ELSE <<"Shader compile error">>

\* createProgram when the two compilations and the link end as given: the
\* program name is returned whether or not GL_LINK_STATUS is set.  Result:
\* <<program, diagnostics>>.
createProgram(vsOk, fsOk, linkOk) ==
    << [id |-> 1, linked |-> linkOk],
       compileShader(vsOk) \o compileShader(fsOk)
           \o (IF linkOk THEN <<>> ELSE <<"Link error">>) >>

\* gProgram after a createProgram in which both shaders compile and link.
LinkedProgram == createProgram(TRUE, TRUE, TRUE)[1]

\* DrawBuffer::init allocating 1<<10 bytes instead of 1<<20.
DrawBufferInitSmall(buf, g) ==
    LET id == Len(g.buffers) + 1
    IN  << [buf EXCEPT !.vao = id, !.vbo = id],
           [g EXCEPT !.buffers = Append(@, SmallStore)] >>

\* DrawBuffer::init on context g: glGenVertexArrays, glGenBuffers (fresh names,
\* the same for vao and vbo here), glBufferData.  Result: <<buffer, context>>.
DrawBufferInit(buf, g) ==
    LET id == Len(g.buffers) + 1
    IN  << [buf EXCEPT !.vao = id, !.vbo = id],
           [g EXCEPT !.buffers = Append(@, NewStore)] >>

\* DrawBuffer::destroy that deletes the buffer object only.
destroyVboOnly(buf) ==
    IF buf.vbo # 0 THEN << [call |-> "glDeleteBuffers", vbo |-> buf.vbo] >> ELSE <<>>

\* DrawBuffer::destroy: the GL calls it makes.
destroy(buf) ==
    (IF buf.vbo # 0 THEN << [call |-> "glDeleteBuffers", vbo |-> buf.vbo] >> ELSE <<>>)
    \o (IF buf.vao # 0 THEN << [call |-> "glDeleteVertexArrays", vao |-> buf.vao] >>
        ELSE <<>>)

\* begin() clearing the float list only.
beginKeepCount(buf) == [buf EXCEPT !.data = <<>>]

\* DrawBuffer::begin
begin(buf) == [buf EXCEPT !.data = <<>>, !.vertexCount = 0]

\* DrawBuffer::pushVertex (one element of data stands for the 8 floats of a
\* vertex)
pushVertex(buf, vtx) ==
    [buf EXCEPT !.data = Append(@, vtx), !.vertexCount = @ + 1]

\* data.size() * sizeof(float)
DataBytes(buf) == SpanSum(buf.data, 1, Len(buf.data)) * FloatsPerVertex * SizeofFloat

\* What glDrawArrays can do when it is told to read past the end of the
\* bound buffer's data store: undefined by the GL specification.
OverrunOutcomes == {"garbage", "terminated"}

\* DrawBuffer::uploadAndDrawTriangles(mode) on context g.  Result: the set of
\* possible <<context, calls, outcome>>: calls are the GL calls issued, in
\* order; outcome is "none" (early return), "drawn", or one of
\* OverrunOutcomes.  glBufferSubData beyond the store's size raises
\* GL_INVALID_VALUE and writes nothing; the code never reads the error flag.
uploadAndDrawTriangles(buf, g, mode) ==
    IF buf.data = <<>> THEN { <<g, <<>>, "none">> }
    ELSE
      LET store == g.buffers[buf.vbo]
          fits == DataBytes(buf) <= store.size
          g1 == IF fits THEN g ELSE [g EXCEPT !.error = "GL_INVALID_VALUE"]
          g2 == [g1 EXCEPT !.boundTexture = 0]
          inStore == buf.vertexCount * FloatsPerVertex * SizeofFloat <= store.size
          calls == << [call |-> "glBufferSubData", vbo |-> buf.vbo,
                       bytes |-> DataBytes(buf), ok |-> fits] >>
                   \o (IF buf.texture # 0
                       THEN << [call |-> "glBindTexture", tex |-> buf.texture] >>
                       ELSE <<>>)
                   \o << [call |-> "glDrawArrays", mode |-> mode, vbo |-> buf.vbo,
                          count |-> buf.vertexCount, useTexture |-> g.useTexture,
                          tex |-> IF buf.texture # 0 THEN buf.texture ELSE g.boundTexture],
                         [call |-> "glBindTexture", tex |-> 0] >>
      IN  { <<g2, calls, o>> : o \in IF inStore THEN {"drawn"} ELSE OverrunOutcomes }

\* --------------------------------------------------------- geometry helpers
\* addRectTriangles pushing the four corners once each, as for a triangle
\* fan.
addRectTrianglesFan(buf, x, y, w, h, color) ==
    LET b1 == pushVertex(buf, Vertex(x, y, color, 0, 0))
        b2 == pushVertex(b1, Vertex(x + w, y, color, 0, 0))
        b3 == pushVertex(b2, Vertex(x + w, y + h, color, 0, 0))
    IN  pushVertex(b3, Vertex(x, y + h, color, 0, 0))

addRectTriangles(buf, x, y, w, h, color) ==
    LET b1 == pushVertex(buf, Vertex(x, y, color, 0, 0))
        b2 == pushVertex(b1, Vertex(x + w, y, color, 0, 0))
        b3 == pushVertex(b2, Vertex(x + w, y + h, color, 0, 0))
        b4 == pushVertex(b3, Vertex(x, y, color, 0, 0))
        b5 == pushVertex(b4, Vertex(x + w, y + h, color, 0, 0))
    IN  pushVertex(b5, Vertex(x, y + h, color, 0, 0))

addRectLines(buf, x, y, w, h, color) ==
    LET b1 == pushVertex(buf, Vertex(x, y, color, 0, 0))
        b2 == pushVertex(b1, Vertex(x + w, y, color, 0, 0))
        b3 == pushVertex(b2, Vertex(x + w, y, color, 0, 0))
        b4 == pushVertex(b3, Vertex(x + w, y + h, color, 0, 0))
        b5 == pushVertex(b4, Vertex(x + w, y + h, color, 0, 0))
        b6 == pushVertex(b5, Vertex(x, y + h, color, 0, 0))
        b7 == pushVertex(b6, Vertex(x, y + h, color, 0, 0))
    IN  pushVertex(b7, Vertex(x, y, color, 0, 0))

\* addCircleTriangles: the loop for(i=0;i<segments;i++) pushes the three
\* vertices of each wedge, 3*segments in all (none if segments <= 0); data
\* holds them as one fan, vertexCount counts each.
addCircleTriangles(buf, cx, cy, r, segments, color) ==
    IF segments <= 0 THEN buf
    ELSE [buf EXCEPT !.data = Append(@, Fan(cx, cy, r, segments, color)),
                     !.vertexCount = @ + 3 * segments]

\* addRectTextured with the v coordinate of the last vertex left at its
\* default 0.
addRectTexturedNoV(buf, x, y, w, h, color) ==
    LET b1 == pushVertex(buf, Vertex(x, y, color, 0, 0))
        b2 == pushVertex(b1, Vertex(x + w, y, color, 1, 0))
        b3 == pushVertex(b2, Vertex(x + w, y + h, color, 1, 1))
        b4 == pushVertex(b3, Vertex(x, y, color, 0, 0))
        b5 == pushVertex(b4, Vertex(x + w, y + h, color, 1, 1))
    IN  pushVertex(b5, Vertex(x, y + h, color, 0, 0))

addRectTextured(buf, x, y, w, h, color) ==
    LET b1 == pushVertex(buf, Vertex(x, y, color, 0, 0))
        b2 == pushVertex(b1, Vertex(x + w, y, color, 1, 0))
        b3 == pushVertex(b2, Vertex(x + w, y + h, color, 1, 1))
        b4 == pushVertex(b3, Vertex(x, y, color, 0, 0))
        b5 == pushVertex(b4, Vertex(x + w, y + h, color, 1, 1))
    IN  pushVertex(b5, Vertex(x, y + h, color, 0, 1))


\* ------------------------------------------------------------------- state
VARIABLES
    pc,          \* position of main(): the next step to execute
    fbW, fbH,    \* the window's actual framebuffer size (the host's side)
    gWinW, gWinH, gPlan,   \* globals of the callback; gPlan: gPlan != nullptr
    shouldClose, \* glfwWindowShouldClose(window)
    events,      \* number of input events delivered so far
    resized,     \* what framebuffer_size_cb was called with in this frame's
                 \* glfwPollEvents, and the projection state before the call
    input,       \* the widget of the Controls window clicked in this frame
    scene,       \* FloorPlan: the shape collections, by name
    flags,       \* FloorPlan: the show* booleans, by name
    scaleX, scaleY, canvasW, canvasH, proj,   \* FloorPlan: projection state
    triBuf, lineBuf,   \* FloorPlan: the two DrawBuffers
    gl,          \* the GL context's state
    glLog,       \* GL calls issued since the start of the current frame
    drawList,    \* ImGui foreground draw list of the current frame
    gProgram,    \* the global gProgram: the program object and its link status
    stderr,      \* the diagnostics written to std::cerr
    textures     \* FloorPlan: the texture handle members, by name

sceneVars == <<scene>>
projVars == <<scaleX, scaleY, canvasW, canvasH, proj>>
bufVars == <<triBuf, lineBuf, gl, glLog>>
startVars == <<gProgram, stderr, textures>>
hostVars == <<fbW, fbH, gWinW, gWinH, gPlan, shouldClose, events, resized>>
vars == <<pc, fbW, fbH, gWinW, gWinH, gPlan, shouldClose, events, resized, input,
          scene, flags, scaleX, scaleY, canvasW, canvasH, proj, triBuf, lineBuf,
          gl, glLog, drawList, gProgram, stderr, textures>>

\* The texture globals: loadTextures() is never called, so they keep their
\* initial value.
floorTexture == 0
wallTexture == 0

\* The show* members as constructed.
DefaultFlags ==
    [showGrid |-> TRUE, showLabels |-> TRUE, showDoorSwings |-> TRUE,
     showDimensions |-> TRUE, showDrains |-> TRUE, showScaleBar |-> TRUE,
     showFrontElevation |-> FALSE, showSideElevation |-> TRUE]

\* The checkboxes of the Controls window.
Checkboxes == {"showGrid", "showLabels", "showDoorSwings", "showDimensions",
               "showFrontElevation"}

NoResize == [w |-> -1, h |-> -1, before |-> <<>>]

\* -------------------------------------------------------------- projection
\* glm::ortho(left, right, bottom, top, -1, 1), kept as its four parameters;
\* the matrix is diag(2/(r-l), 2/(t-b), -1, 1) with translation
\* (-(r+l)/(r-l), -(t+b)/(t-b), 0).
Ortho(l, r, b, t) == [l |-> l, r |-> r, b |-> b, t |-> t]

\* glm::mat4 proj of a FloorPlan before init(): not read before it is set.
UnsetProj == Ortho(0, 0, 0, 0)

\* proj * vec4(px, py, 0, 1): clip coordinates (w is 1 for an orthographic
\* matrix).  The point is passed doubled (px2 = 2*px, py2 = 2*py) so that
\* half-unit coordinates such as a rectangle's centre stay whole numbers.
Clip(pj, px2, py2) ==
    [x |-> Rat(px2 - (pj.r + pj.l), pj.r - pj.l),
     y |-> Rat(py2 - (pj.t + pj.b), pj.t - pj.b),
     w |-> 1]

\* updateProjection without the min(): each axis keeps its own factor.
updateProjectionStretch(w, h) ==
    LET sx0 == (w * ScaleDen) \div LogicalWidth
        sy0 == (h * ScaleDen) \div LogicalHeight
    IN  [canvasW |-> w, canvasH |-> h, viewport |-> <<w, h>>,
         scaleX |-> sx0, scaleY |-> sy0,
         proj |-> Ortho(0, LogicalWidth * sx0, LogicalHeight * sy0, 0)]

\* updateProjection multiplying the new orthographic matrix into the one the
\* plan already holds instead of replacing it: the extents add up.
updateProjectionAccum(w, h) ==
    LET sx0 == (w * ScaleDen) \div LogicalWidth
        sy0 == (h * ScaleDen) \div LogicalHeight
        s == IF sx0 < sy0 THEN sx0 ELSE sy0
    IN  [canvasW |-> w, canvasH |-> h, viewport |-> <<w, h>>,
         scaleX |-> s, scaleY |-> s,
         proj |-> Ortho(0, proj.r + LogicalWidth * s, proj.b + LogicalHeight * s, 0)]

\* updateProjection whose orthographic extents are the unscaled 1200 x 800.
updateProjectionFixedView(w, h) ==
    LET sx0 == (w * ScaleDen) \div LogicalWidth
        sy0 == (h * ScaleDen) \div LogicalHeight
        s == IF sx0 < sy0 THEN sx0 ELSE sy0
    IN  [canvasW |-> w, canvasH |-> h, viewport |-> <<w, h>>,
         scaleX |-> s, scaleY |-> s,
         proj |-> Ortho(0, LogicalWidth * ScaleDen, LogicalHeight * ScaleDen, 0)]

\* FloorPlan::updateProjection(w, h): the values it assigns.
updateProjection(w, h) ==
    LET sx0 == (w * ScaleDen) \div LogicalWidth
        sy0 == (h * ScaleDen) \div LogicalHeight
        s == IF sx0 < sy0 THEN sx0 ELSE sy0
        viewW == LogicalWidth * s
        viewH == LogicalHeight * s
    IN  [canvasW |-> w, canvasH |-> h, viewport |-> <<w, h>>,
         scaleX |-> s, scaleY |-> s,
         proj |-> Ortho(0, viewW, viewH, 0)]

\* worldToScreen without the Y flip: pixelY = (ndc.y*0.5+0.5)*canvasH.
W2SNoFlip(pj, sx, sy, cw, ch, wx2, wy2) ==
    LET clip == Clip(pj, wx2 * sx, wy2 * sy)
        ndcx == clip.x
        ndcy == clip.y
        One == <<1, 1>>
        MinusOne == <<-1, 1>>
    IN  IF clip.w = 0 THEN [ok |-> FALSE, x |-> <<0, 1>>, y |-> <<0, 1>>]
        ELSE IF RatLess(ndcx, MinusOne) \/ RatLess(One, ndcx)
                \/ RatLess(ndcy, MinusOne) \/ RatLess(One, ndcy)
        THEN [ok |-> FALSE, x |-> <<0, 1>>, y |-> <<0, 1>>]
        ELSE [ok |-> TRUE,
              x |-> Rat((ndcx[1] + ndcx[2]) * cw, 2 * ndcx[2]),
              y |-> Rat((ndcy[1] + ndcy[2]) * ch, 2 * ndcy[2])]

\* The body shared by the five worldToScreen lambdas: project (wx*sx, wy*sy),
\* reject on w == 0 or NDC outside [-1,1], else map to pixels.  The world
\* point is passed doubled: wx2 = 2*wx, wy2 = 2*wy.
W2S(pj, sx, sy, cw, ch, wx2, wy2) ==
    LET clip == Clip(pj, wx2 * sx, wy2 * sy)
        ndcx == clip.x
        ndcy == clip.y
        One == <<1, 1>>
        MinusOne == <<-1, 1>>
    IN  IF clip.w = 0 THEN [ok |-> FALSE, x |-> <<0, 1>>, y |-> <<0, 1>>]
        ELSE IF RatLess(ndcx, MinusOne) \/ RatLess(One, ndcx)
                \/ RatLess(ndcy, MinusOne) \/ RatLess(One, ndcy)
        THEN [ok |-> FALSE, x |-> <<0, 1>>, y |-> <<0, 1>>]
        ELSE [ok |-> TRUE,
              x |-> Rat((ndcx[1] + ndcx[2]) * cw, 2 * ndcx[2]),
              y |-> Rat((2 * ndcy[2] - (ndcy[1] + ndcy[2])) * ch, 2 * ndcy[2])]

\* worldToScreen of drawDoorSwings, drawDimensions, drawFloorDrains (which
\* scales both axes by sx), drawScaleBar and drawLabels, each on the doubled
\* world point.
worldToScreenSwing(wx2, wy2) == W2S(proj, scaleX, scaleY, canvasW, canvasH, wx2, wy2)
worldToScreenDim(wx2, wy2) == W2S(proj, scaleX, scaleY, canvasW, canvasH, wx2, wy2)
worldToScreenDrain(wx2, wy2) == W2S(proj, scaleX, scaleX, canvasW, canvasH, wx2, wy2)
worldToScreenBar(wx2, wy2) == W2S(proj, scaleX, scaleY, canvasW, canvasH, wx2, wy2)
worldToScreenLabel(wx2, wy2) == W2S(proj, scaleX, scaleY, canvasW, canvasH, wx2, wy2)


\* ------------------------------------------------------------------ render
\* An empty batch, onto which one loop iteration pushes its vertices.
Fresh == begin(NewDrawBuffer)

RECURSIVE SumCounts(_)
SumCounts(parts) == IF parts = <<>> THEN 0 ELSE Head(parts).vertexCount + SumCounts(Tail(parts))

\* The effect on buf of a loop whose iterations push, in order, what
\* parts[1], parts[2], ... hold: pushVertex only appends, so the iterations'
\* vertices follow buf's in order and vertexCount grows by their number.
Emit(buf, parts) ==
    [buf EXCEPT !.data = @ \o Flatten([i \in 1..Len(parts) |-> parts[i].data]),
                !.vertexCount = @ + SumCounts(parts)]

\* for(auto &w: items) addRectTextured(buf, w.x*sx, w.y*sy, w.w*sx, w.h*sy, vec4(1))
AddTexturedRects(buf, items, sx, sy) ==
    Emit(buf, [i \in 1..Len(items) |->
        LET r == items[i]
        IN  addRectTextured(Fresh, r.x * sx, r.y * sy, r.w * sx, r.h * sy, White)])

\* for(auto &k: items) addRectTriangles(buf, k.x*sx, k.y*sy, k.w*sx, k.h*sy, k.color)
AddColoredRects(buf, items, sx, sy) ==
    Emit(buf, [i \in 1..Len(items) |->
        LET r == items[i]
        IN  addRectTriangles(Fresh, r.x * sx, r.y * sy, r.w * sx, r.h * sy, r.color)])

doorColor == <<545, 271, 75, 1000>>

\* for(auto &d: doors) addRectTriangles(buf, ..., doorColor)
AddDoorRects(buf, items, sx, sy) ==
    Emit(buf, [i \in 1..Len(items) |->
        LET r == items[i]
        IN  addRectTriangles(Fresh, r.x * sx, r.y * sy, r.w * sx, r.h * sy, doorColor)])

\* for(auto &c: tablesCircle) addCircleTriangles(buf, c.x*sx, c.y*sy, c.r*sx, 20, c.color)
AddCircles(buf, items, sx, sy) ==
    Emit(buf, [i \in 1..Len(items) |->
        LET c == items[i]
        IN  addCircleTriangles(Fresh, c.x * sx, c.y * sy, c.r * sx, CircleSegments, c.color)])

\* for(auto &w: items) addRectLines(buf, w.x*sx, w.y*sy, w.w*sx, w.h*sy, color)
AddOutlines(buf, items, sx, sy, color) ==
    Emit(buf, [i \in 1..Len(items) |->
        LET r == items[i]
        IN  addRectLines(Fresh, r.x * sx, r.y * sy, r.w * sx, r.h * sy, color)])

gridColor == <<0, 0, 0, 60>>

\* for(int x=50;x<=1150;x+=step) two pushVertex: (x*sx,50*sy), (x*sx,750*sy)
GridColumns(buf, sx, sy) ==
    Emit(buf, [i \in 1..((1150 - 50) \div 50 + 1) |->
        LET x == 50 + (i - 1) * 50
        IN  pushVertex(pushVertex(Fresh, Vertex(x * sx, 50 * sy, gridColor, 0, 0)),
                       Vertex(x * sx, 750 * sy, gridColor, 0, 0))])

\* for(int y=50;y<=750;y+=step) two pushVertex: (50*sx,y*sy), (1150*sx,y*sy)
GridRows(buf, sx, sy) ==
    Emit(buf, [i \in 1..((750 - 50) \div 50 + 1) |->
        LET y == 50 + (i - 1) * 50
        IN  pushVertex(pushVertex(Fresh, Vertex(50 * sx, y * sy, gridColor, 0, 0)),
                       Vertex(1150 * sx, y * sy, gridColor, 0, 0))])

\* The triangle batch render() accumulates between triBuf.begin() and
\* triBuf.uploadAndDrawTriangles (floor[0] must exist).
TriangleBatch(buf, sc, sx, sy) ==
    LET b0 == begin(buf)
        f == sc.floor[1]
        b1 == addRectTextured(b0, f.x * sx, f.y * sy, f.w * sx, f.h * sy, White)
        b2 == AddTexturedRects(b1, sc.walls, sx, sy)
        b3 == AddColoredRects(b2, sc.kitchen, sx, sy)
        b4 == AddColoredRects(b3, sc.bar, sx, sy)
        b5 == AddColoredRects(b4, sc.windows, sx, sy)
        b6 == AddColoredRects(b5, sc.restrooms, sx, sy)
        b7 == AddColoredRects(b6, sc.fire, sx, sy)
        b8 == AddDoorRects(b7, sc.doors, sx, sy)
        b9 == AddColoredRects(b8, sc.tablesRect, sx, sy)
    IN  AddCircles(b9, sc.tablesCircle, sx, sy)

\* The line batch of a render() that does not call lineBuf.begin().
LineBatchNoBegin(buf, sc, fl, sx, sy) ==
    LET b1 == IF fl.showGrid THEN GridRows(GridColumns(buf, sx, sy), sx, sy) ELSE buf
        b2 == AddOutlines(b1, sc.walls, sx, sy, <<200, 240, 280, 1000>>)
        b3 == AddOutlines(b2, sc.kitchen, sx, sy, <<120, 120, 120, 1000>>)
    IN  AddOutlines(b3, sc.tablesRect, sx, sy, <<620, 360, 120, 1000>>)

\* The line batch render() accumulates between lineBuf.begin() and
\* lineBuf.uploadAndDrawTriangles.
LineBatch(buf, sc, fl, sx, sy) ==
    LET b0 == begin(buf)
        b1 == IF fl.showGrid THEN GridRows(GridColumns(b0, sx, sy), sx, sy) ELSE b0
        b2 == AddOutlines(b1, sc.walls, sx, sy, <<200, 240, 280, 1000>>)
        b3 == AddOutlines(b2, sc.kitchen, sx, sy, <<120, 120, 120, 1000>>)
    IN  AddOutlines(b3, sc.tablesRect, sx, sy, <<620, 360, 120, 1000>>)

\* What render() does before the triangle batch is drawn, batching aside: the
\* GL calls and, between them, triBuf.begin(); the context state they leave:
\* useTexture ends false, the wall texture bound.
RenderSetupCalls ==
    << [call |-> "glUseProgram", program |-> gProgram.id],
       [call |-> "glUniformMatrix4fv", name |-> "uMVP", value |-> proj],
       [call |-> "begin", buf |-> "triBuf"],
       [call |-> "glUniform1i", name |-> "useTexture", value |-> TRUE],
       [call |-> "glBindTexture", tex |-> floorTexture],
       [call |-> "glUniform1i", name |-> "uTexture", value |-> 0],
       [call |-> "glBindTexture", tex |-> wallTexture],
       [call |-> "glUniform1i", name |-> "useTexture", value |-> FALSE] >>

\* lineBuf.begin(), which render() calls once the triangle batch is drawn.
LineSetupCalls == << [call |-> "begin", buf |-> "lineBuf"] >>

\* ---------------------------------------------------------------- overlays
RatAdd(p, q) == Rat(p[1] * q[2] + q[1] * p[2], p[2] * q[2])
RatNeg(p) == <<-p[1], p[2]>>

\* A screen point (pixels, fractions); ArcPt is centre + radius at angle
\* 2*pi*k/n.
Pt(x, y) == [x |-> x, y |-> y, rad |-> <<0, 1>>, ang |-> <<0, 1>>]
ArcPt(c, rad, k, n) == [x |-> c.x, y |-> c.y, rad |-> rad, ang |-> <<k, n>>]

\* draw_list->AddLine / AddRectFilled / AddText / AddCircleFilled, tagged with
\* the overlay category, the collection and the index of the item drawn.
Line(cat, coll, i, a, b) == [cat |-> cat, prim |-> "line", coll |-> coll, item |-> i, a |-> a, b |-> b]
Plate(cat, coll, i, at, pad) == [cat |-> cat, prim |-> "rect", coll |-> coll, item |-> i, a |-> at, b |-> pad]
Text(cat, coll, i, at, txt) == [cat |-> cat, prim |-> "text", coll |-> coll, item |-> i, a |-> at, b |-> txt]
Disc(cat, coll, i, at, rad) == [cat |-> cat, prim |-> "circle", coll |-> coll, item |-> i, a |-> at, b |-> rad]

\* The commands cmds of the horizontal ("h") or vertical ("v") dimension line
\* of an item: its item tag becomes <<index, axis>>.
OnAxis(cmds, axis) == [k \in 1..Len(cmds) |-> [cmds[k] EXCEPT !.item = <<@, axis>>]]

\* The arc loop with radius (d.w + d.h) * sx, the 0.5f left out.
SwingArcDiameter(i, d, c) ==
    LET radius == Rat((d.w + d.h) * scaleX, ScaleDen)
        ctr == Pt(c.x, c.y)
    IN  Flatten([s \in 1..SwingSegments |->
            << Line("swing", "doors", i, ctr, ArcPt(ctr, radius, s - 1, 4 * SwingSegments)),
               Line("swing", "doors", i, ArcPt(ctr, radius, s - 1, 4 * SwingSegments),
                                         ArcPt(ctr, radius, s, 4 * SwingSegments)) >>])

\* The arc loop of drawDoorSwings for one door with accepted hinge pixel c:
\* per segment i a spoke centre->p1 and a chord p1->p2.
SwingArc(i, d, c) ==
    LET radius == Rat((d.w + d.h) * scaleX, 2 * ScaleDen)
        ctr == Pt(c.x, c.y)
    IN  Flatten([s \in 1..SwingSegments |->
            << Line("swing", "doors", i, ctr, ArcPt(ctr, radius, s - 1, 4 * SwingSegments)),
               Line("swing", "doors", i, ArcPt(ctr, radius, s - 1, 4 * SwingSegments),
                                         ArcPt(ctr, radius, s, 4 * SwingSegments)) >>])

\* drawDoorSwings that draws the arc whether or not the hinge was accepted.
SwingCmdsNoReject ==
    IF ~flags.showDoorSwings THEN <<>>
    ELSE Flatten([i \in 1..Len(scene.doors) |->
            SwingArc(i, scene.doors[i], worldToScreenSwing(2 * scene.doors[i].x, 2 * scene.doors[i].y))])

\* FloorPlan::drawDoorSwings: the commands it appends.
SwingCmds ==
    IF ~flags.showDoorSwings THEN <<>>
    ELSE Flatten([i \in 1..Len(scene.doors) |->
            LET d == scene.doors[i]
                c == worldToScreenSwing(2 * d.x, 2 * d.y)
            IN  IF ~c.ok THEN <<>> ELSE SwingArc(i, d, c)])

\* drawLineWithArrow(p0, p1) of drawDimensions.
LineWithArrow(coll, i, p0, p1) ==
    LET arrow == Rat(5 * scaleX, ScaleDen)
    IN  << Line("dimension", coll, i, Pt(p0.x, p0.y), Pt(p1.x, p1.y)),
           Line("dimension", coll, i, Pt(p0.x, p0.y),
                Pt(RatAdd(p0.x, arrow), RatAdd(p0.y, arrow))),
           Line("dimension", coll, i, Pt(p1.x, p1.y),
                Pt(RatAdd(p1.x, RatNeg(arrow)), RatAdd(p1.y, RatNeg(arrow)))) >>

\* A dimension line labelled with the extent in scaled units.
DimLineScaled(coll, i, p0, p1, value) ==
    LineWithArrow(coll, i, p0, p1)
    \o << Plate("dimension", coll, i, <<p0, p1>>, <<2, 1>>),
          Text("dimension", coll, i, <<p0, p1>>, (value * scaleX) \div ScaleDen) >>

\* One dimension line with its plate and its "%.0f" text (the items' extents
\* are whole numbers, which "%.0f" prints unchanged).
DimLine(coll, i, p0, p1, value) ==
    LineWithArrow(coll, i, p0, p1)
    \o << Plate("dimension", coll, i, <<p0, p1>>, <<2, 1>>),
          Text("dimension", coll, i, <<p0, p1>>, value) >>

\* drawRectDims(items) of drawDimensions.
drawRectDims(coll) ==
    Flatten([i \in 1..Len(scene[coll]) |->
        LET r == scene[coll][i]
            h0 == worldToScreenDim(2 * r.x, 2 * (r.y + r.h + DimOffset))
            h1 == worldToScreenDim(2 * (r.x + r.w), 2 * (r.y + r.h + DimOffset))
            v0 == worldToScreenDim(2 * (r.x + r.w + DimOffset), 2 * r.y)
            v1 == worldToScreenDim(2 * (r.x + r.w + DimOffset), 2 * (r.y + r.h))
        IN  (IF h0.ok /\ h1.ok THEN OnAxis(DimLine(coll, i, h0, h1, r.w), "h") ELSE <<>>)
            \o (IF v0.ok /\ v1.ok THEN OnAxis(DimLine(coll, i, v0, v1, r.h), "v") ELSE <<>>)])

\* FloorPlan::drawDimensions: the commands it appends.
DimensionCmds ==
    IF ~flags.showDimensions THEN <<>>
    ELSE drawRectDims("walls") \o drawRectDims("bar") \o drawRectDims("windows")

\* FloorPlan::drawFloorDrains: the commands it appends.
DrainCmds ==
    IF ~flags.showDrains THEN <<>>
    ELSE Flatten([i \in 1..Len(scene.drains) |->
            LET d == scene.drains[i]
                p == worldToScreenDrain(2 * d.x, 2 * d.y)
            IN  IF ~p.ok THEN <<>>
                ELSE << Disc("drain", "drains", i, Pt(p.x, p.y), Rat(d.r * scaleX, ScaleDen)) >>
                     \o (IF d.label # ""
                         THEN << Plate("drain", "drains", i, Pt(p.x, p.y), <<2, 1>>),
                                 Text("drain", "drains", i, Pt(p.x, p.y), d.label) >>
                         ELSE <<>>)])

\* FloorPlan::drawScaleBar: the commands it appends (showScaleBar is not read).
ScaleBarCmds ==
    LET wx0 == 60
        wy0 == 40
        length_m == 100
        start == worldToScreenBar(2 * wx0, 2 * wy0)
        end == worldToScreenBar(2 * (wx0 + length_m), 2 * wy0)
    IN  IF ~start.ok THEN <<>>
        ELSE IF ~end.ok THEN <<>>
        ELSE << Line("scalebar", "", 0, Pt(start.x, start.y), Pt(end.x, end.y)),
                Text("scalebar", "", 0, Pt(start.x, start.y), "1 m") >>

\* drawRectLabels(items) of drawLabels (also applied to doors).
drawRectLabels(coll) ==
    Flatten([i \in 1..Len(scene[coll]) |->
        LET r == scene[coll][i]
            p == worldToScreenLabel(2 * r.x + r.w, 2 * r.y + r.h)
        IN  IF r.label = "" THEN <<>>
            ELSE IF ~p.ok THEN <<>>
            ELSE << Plate("label", coll, i, Pt(p.x, p.y), <<4, 2>>),
                    Text("label", coll, i, Pt(p.x, p.y), r.label) >>])

\* drawCircleLabels(items) of drawLabels.
drawCircleLabels(coll) ==
    Flatten([i \in 1..Len(scene[coll]) |->
        LET c == scene[coll][i]
            p == worldToScreenLabel(2 * c.x, 2 * c.y)
        IN  IF c.label = "" THEN <<>>
            ELSE IF ~p.ok THEN <<>>
            ELSE << Plate("label", coll, i, Pt(p.x, p.y), <<4, 2>>),
                    Text("label", coll, i, Pt(p.x, p.y), c.label) >>])

\* FloorPlan::drawLabels: the commands it appends.
LabelCmds ==
    IF ~flags.showLabels THEN <<>>
    ELSE drawRectLabels("walls") \o drawRectLabels("kitchen") \o drawRectLabels("bar")
         \o drawRectLabels("windows") \o drawRectLabels("restrooms")
         \o drawRectLabels("fire") \o drawRectLabels("tablesRect")
         \o drawCircleLabels("tablesCircle") \o drawRectLabels("doors")
         \o drawCircleLabels("drains")


\* --------------------------------------------------------------- main loop
\* main() up to and including `FloorPlan plan;`: window and context created
\* at gWinW x gWinH, the plan constructed with its member initialisers.
Init ==
    /\ pc = "init"
    /\ fbW = WinW /\ fbH = WinH
    /\ gWinW = WinW /\ gWinH = WinH /\ gPlan = FALSE
    /\ shouldClose = FALSE
    /\ events = 0
    /\ resized = NoResize
    /\ input = "none"
    /\ scene = EmptyScene
    /\ flags = DefaultFlags
    /\ scaleX = ScaleDen /\ scaleY = ScaleDen
    /\ canvasW = DefaultCanvasW /\ canvasH = DefaultCanvasH
    /\ proj = UnsetProj
    /\ triBuf = NewDrawBuffer /\ lineBuf = NewDrawBuffer
    /\ gl = NewGL
    /\ glLog = <<>>
    /\ drawList = <<>>
    /\ gProgram = LinkedProgram /\ stderr = <<>> /\ textures = NoTextures

\* Assign the result of updateProjection(w, h) to the plan and the context.
ApplyProjection(p, g) ==
    /\ canvasW' = p.canvasW /\ canvasH' = p.canvasH
    /\ scaleX' = p.scaleX /\ scaleY' = p.scaleY
    /\ proj' = p.proj
    /\ gl' = [g EXCEPT !.viewport = p.viewport]

\* plan.init(1200, 800); gPlan = &plan;
PlanInit ==
    /\ pc = "init"
    /\ LET t == DrawBufferInit(triBuf, gl)
           l == DrawBufferInit(lineBuf, t[2])
       IN  /\ triBuf' = t[1]
           /\ lineBuf' = l[1]
           /\ scene' = setupDefaultLayout(scene)
           /\ ApplyProjection(updateProjection(InitW, InitH), l[2])
    /\ gPlan' = TRUE
    /\ pc' = "loopTest"
    /\ UNCHANGED <<startVars, fbW, fbH, gWinW, gWinH, shouldClose, events, resized, input,
                   flags, glLog, drawList>>

\* while(!glfwWindowShouldClose(window))
LoopTest ==
    /\ pc = "loopTest"
    /\ pc' = IF shouldClose THEN "shutdown" ELSE "poll"
    /\ UNCHANGED <<startVars, hostVars, input, scene, flags, projVars, bufVars, drawList>>

\* glfwPollEvents() with nothing to deliver.
PollNone ==
    /\ pc = "poll"
    /\ resized' = NoResize
    /\ pc' = "newFrame"
    /\ UNCHANGED <<startVars, fbW, fbH, gWinW, gWinH, gPlan, shouldClose, events, input,
                   scene, flags, projVars, bufVars, drawList>>

\* glfwPollEvents() when the framebuffer size changed to w x h: it calls
\* framebuffer_size_cb(window, w, h).
PollResize(w, h) ==
    /\ pc = "poll"
    /\ events < MaxEvents
    /\ <<w, h>> # <<fbW, fbH>>
    /\ events' = events + 1
    /\ fbW' = w /\ fbH' = h
    /\ resized' = [w |-> w, h |-> h,
                   before |-> <<scaleX, scaleY, canvasW, canvasH, proj>>]
    /\ IF w > 0 /\ h > 0
       THEN /\ gWinW' = w /\ gWinH' = h
            /\ IF gPlan
               THEN ApplyProjection(updateProjection(w, h), gl)
               ELSE UNCHANGED <<projVars, gl>>
       ELSE UNCHANGED <<gWinW, gWinH, projVars, gl>>
    /\ pc' = "newFrame"
    /\ UNCHANGED <<startVars, gPlan, shouldClose, input, scene, flags, triBuf, lineBuf,
                   glLog, drawList>>

\* glfwPollEvents() when the user asked to close the window.
PollClose ==
    /\ pc = "poll"
    /\ events < MaxEvents
    /\ ~shouldClose
    /\ events' = events + 1
    /\ shouldClose' = TRUE
    /\ resized' = NoResize
    /\ pc' = "newFrame"
    /\ UNCHANGED <<startVars, fbW, fbH, gWinW, gWinH, gPlan, input, scene, flags, projVars,
                   bufVars, drawList>>

\* ImGui_ImplOpenGL3_NewFrame(); ImGui_ImplGlfw_NewFrame(); ImGui::NewFrame():
\* a new, empty foreground draw list.
NewFrame ==
    /\ pc = "newFrame"
    /\ drawList' = <<>>
    /\ glLog' = <<>>
    /\ pc' = "controls"
    /\ UNCHANGED <<startVars, hostVars, input, scene, flags, projVars, triBuf, lineBuf, gl>>

\* The Controls window (with the elevation views, which only read the scene)
\* when no widget is clicked.
ControlsIdle ==
    /\ pc = "controls"
    /\ input' = "none"
    /\ pc' = "clear"
    /\ UNCHANGED <<startVars, hostVars, scene, flags, projVars, bufVars, drawList>>

\* The Controls window when "Reset Layout" is clicked.
ControlsReset ==
    /\ pc = "controls"
    /\ events < MaxEvents
    /\ events' = events + 1
    /\ input' = "reset"
    /\ scene' = setupDefaultLayout(scene)
    /\ pc' = "clear"
    /\ UNCHANGED <<startVars, fbW, fbH, gWinW, gWinH, gPlan, shouldClose, resized, flags,
                   projVars, bufVars, drawList>>

\* The Controls window when checkbox c is clicked.
ControlsCheckbox(c) ==
    /\ pc = "controls"
    /\ events < MaxEvents
    /\ events' = events + 1
    /\ input' = c
    /\ flags' = [flags EXCEPT ![c] = ~@]
    /\ pc' = "clear"
    /\ UNCHANGED <<startVars, fbW, fbH, gWinW, gWinH, gPlan, shouldClose, resized, scene,
                   projVars, bufVars, drawList>>

\* A main loop that goes from glClear straight to the overlays.
ClearFrameNoRender ==
    /\ pc = "clear"
    /\ glLog' = Append(glLog, [call |-> "glClear"])
    /\ pc' = "doorSwings"
    /\ UNCHANGED <<startVars, hostVars, input, scene, flags, projVars, triBuf, lineBuf, gl,
                   drawList>>

\* glClearColor(...); glClear(GL_COLOR_BUFFER_BIT);
ClearFrame ==
    /\ pc = "clear"
    /\ glLog' = Append(glLog, [call |-> "glClear"])
    /\ pc' = "render"
    /\ UNCHANGED <<startVars, hostVars, input, scene, flags, projVars, triBuf, lineBuf, gl,
                   drawList>>

\* plan.render(gProgram), leaving the scene as sceneAfter.  floor[0] on an
\* empty floor and a draw past the end of the buffer store are undefined: the
\* program may stop there.
RenderStep(sceneAfter) ==
    /\ pc = "render"
    /\ scene' = sceneAfter
    /\ IF scene.floor = <<>>
       THEN /\ pc' = "crashed"
            /\ UNCHANGED <<bufVars>>
       ELSE LET tb == TriangleBatch(triBuf, scene, scaleX, scaleY)
                g0 == [gl EXCEPT !.useTexture = FALSE, !.boundTexture = wallTexture]
                log0 == glLog \o RenderSetupCalls
            IN  \E r1 \in uploadAndDrawTriangles(tb, g0, GL_TRIANGLES) :
                  /\ triBuf' = tb
                  /\ IF r1[3] = "terminated"
                     THEN /\ gl' = r1[1]
                          /\ glLog' = log0 \o r1[2]
                          /\ pc' = "crashed"
                          /\ UNCHANGED lineBuf
                     ELSE LET lb == LineBatch(lineBuf, scene, flags, scaleX, scaleY)
                          IN  \E r2 \in uploadAndDrawTriangles(lb, r1[1], GL_LINES) :
                                /\ lineBuf' = lb
                                /\ gl' = r2[1]
                                /\ glLog' = log0 \o r1[2] \o LineSetupCalls \o r2[2]
                                /\ pc' = IF r2[3] = "terminated" THEN "crashed"
                                         ELSE "doorSwings"
    /\ UNCHANGED <<startVars, hostVars, input, flags, projVars, drawList>>

\* render() whose wall loop scales the walls in place (w.x *= sx, ...)
\* through its non-const reference.
RenderInPlace ==
    RenderStep([scene EXCEPT !.walls =
        [i \in 1..Len(scene.walls) |->
            [scene.walls[i] EXCEPT !.x = (@ * scaleX) \div ScaleDen,
                                   !.y = (@ * scaleY) \div ScaleDen,
                                   !.w = (@ * scaleX) \div ScaleDen,
                                   !.h = (@ * scaleY) \div ScaleDen]]])

\* plan.render(gProgram): the scene is only read.
Render == RenderStep(scene)

\* plan.drawDoorSwings();
DrawDoorSwings ==
    /\ pc = "doorSwings"
    /\ drawList' = drawList \o SwingCmds
    /\ pc' = "drains"
    /\ UNCHANGED <<startVars, hostVars, input, scene, flags, projVars, bufVars>>

\* plan.drawFloorDrains();
DrawFloorDrains ==
    /\ pc = "drains"
    /\ drawList' = drawList \o DrainCmds
    /\ pc' = "dimensions"
    /\ UNCHANGED <<startVars, hostVars, input, scene, flags, projVars, bufVars>>

\* A drawDimensions that first recomputes the projection from the window
\* size globals, as a per-frame poll of the size would.
DrawDimensionsPolled ==
    /\ pc = "dimensions"
    /\ drawList' = drawList \o DimensionCmds
    /\ pc' = "scaleBar"
    /\ LET p == updateProjection(gWinW, gWinH)
       IN  /\ canvasW' = p.canvasW /\ canvasH' = p.canvasH
           /\ scaleX' = p.scaleX /\ scaleY' = p.scaleY
           /\ proj' = p.proj
    /\ UNCHANGED <<startVars, hostVars, input, scene, flags, bufVars>>

\* plan.drawDimensions();
DrawDimensions ==
    /\ pc = "dimensions"
    /\ drawList' = drawList \o DimensionCmds
    /\ pc' = "scaleBar"
    /\ UNCHANGED <<startVars, hostVars, input, scene, flags, projVars, bufVars>>

\* plan.drawScaleBar();
DrawScaleBar ==
    /\ pc = "scaleBar"
    /\ drawList' = drawList \o ScaleBarCmds
    /\ pc' = "labels"
    /\ UNCHANGED <<startVars, hostVars, input, scene, flags, projVars, bufVars>>

\* plan.drawLabels();
DrawLabels ==
    /\ pc = "labels"
    /\ drawList' = drawList \o LabelCmds
    /\ pc' = "imguiRender"
    /\ UNCHANGED <<startVars, hostVars, input, scene, flags, projVars, bufVars>>

\* ImGui::Render(); ImGui_ImplOpenGL3_RenderDrawData(ImGui::GetDrawData());
ImGuiRender ==
    /\ pc = "imguiRender"
    /\ glLog' = Append(glLog, [call |-> "RenderDrawData", commands |-> Len(drawList)])
    /\ pc' = "swap"
    /\ UNCHANGED <<startVars, hostVars, input, scene, flags, projVars, triBuf, lineBuf, gl,
                   drawList>>

\* glfwSwapBuffers(window);
SwapBuffers ==
    /\ pc = "swap"
    /\ pc' = "loopTest"
    /\ UNCHANGED <<startVars, hostVars, input, scene, flags, projVars, bufVars, drawList>>

\* After the loop: plan.destroy(), ImGui shutdown, glDeleteProgram,
\* glfwDestroyWindow, glfwTerminate.
Shutdown ==
    /\ pc = "shutdown"
    /\ glLog' = glLog \o destroy(triBuf) \o destroy(lineBuf)
                      \o << [call |-> "glDeleteProgram", program |-> gProgram.id] >>
    /\ pc' = "done"
    /\ UNCHANGED <<startVars, hostVars, input, scene, flags, projVars, triBuf, lineBuf, gl,
                   drawList>>

Next ==
    \/ PlanInit
    \/ LoopTest
    \/ PollNone
    \/ \E sz \in Sizes : PollResize(sz[1], sz[2])
    \/ PollClose
    \/ NewFrame
    \/ ControlsIdle
    \/ ControlsReset
    \/ \E c \in Checkboxes : ControlsCheckbox(c)
    \/ ClearFrame
    \/ Render
    \/ DrawDoorSwings
    \/ DrawFloorDrains
    \/ DrawDimensions
    \/ DrawScaleBar
    \/ DrawLabels
    \/ ImGuiRender
    \/ SwapBuffers
    \/ Shutdown

Spec == Init /\ [][Next]_vars

\* ------------------------------------------------------------------ startup
\* main() from `gProgram = createProgram(VERT_SRC, FRAG_SRC)` on, with the
\* driver deciding whether the shaders compile and the program links.
InitStartup ==
    /\ pc = "createProgram"
    /\ fbW = WinW /\ fbH = WinH
    /\ gWinW = WinW /\ gWinH = WinH /\ gPlan = FALSE
    /\ shouldClose = FALSE
    /\ events = 0
    /\ resized = NoResize
    /\ input = "none"
    /\ scene = EmptyScene
    /\ flags = DefaultFlags
    /\ scaleX = ScaleDen /\ scaleY = ScaleDen
    /\ canvasW = DefaultCanvasW /\ canvasH = DefaultCanvasH
    /\ proj = UnsetProj
    /\ triBuf = NewDrawBuffer /\ lineBuf = NewDrawBuffer
    /\ gl = NewGL
    /\ glLog = <<>>
    /\ drawList = <<>>
    /\ gProgram = NoProgram /\ stderr = <<>> /\ textures = NoTextures

\* gProgram = createProgram(VERT_SRC, FRAG_SRC); main() does not look at the
\* statuses and goes on to the ImGui setup and `FloorPlan plan;`.  A program
\* with a shader that did not compile does not link.
CreateProgram(vsOk, fsOk, linkOk) ==
    /\ pc = "createProgram"
    /\ linkOk => (vsOk /\ fsOk)
    /\ gProgram' = createProgram(vsOk, fsOk, linkOk)[1]
    /\ stderr' = stderr \o createProgram(vsOk, fsOk, linkOk)[2]
    /\ pc' = "init"
    /\ UNCHANGED <<hostVars, input, scene, flags, projVars, bufVars, drawList,
                   textures>>

NextStartup ==
    \/ \E vsOk \in BOOLEAN, fsOk \in BOOLEAN, linkOk \in BOOLEAN :
          CreateProgram(vsOk, fsOk, linkOk)
    \/ Next

SpecStartup == InitStartup /\ [][NextStartup]_vars

\* ------------------------------------------------------------ loadTextures
\* FloorPlan::loadTextures() on a fresh context, each stbi_load failing or
\* returning an image.  pc names the member the next statement assigns.
InitTex ==
    /\ pc = TextureMembers[1]
    /\ fbW = WinW /\ fbH = WinH
    /\ gWinW = WinW /\ gWinH = WinH /\ gPlan = FALSE
    /\ shouldClose = FALSE
    /\ events = 0
    /\ resized = NoResize
    /\ input = "none"
    /\ scene = EmptyScene
    /\ flags = DefaultFlags
    /\ scaleX = ScaleDen /\ scaleY = ScaleDen
    /\ canvasW = DefaultCanvasW /\ canvasH = DefaultCanvasH
    /\ proj = UnsetProj
    /\ triBuf = NewDrawBuffer /\ lineBuf = NewDrawBuffer
    /\ gl = NewGL
    /\ glLog = <<>>
    /\ drawList = <<>>
    /\ gProgram = LinkedProgram /\ stderr = <<>> /\ textures = NoTextures

\* Position of the statement at pc in loadTextures() (0: none).
LoadIndex ==
    IF \E i \in DOMAIN TextureMembers : TextureMembers[i] = pc
    THEN CHOOSE i \in DOMAIN TextureMembers : TextureMembers[i] = pc
    ELSE 0

\* One statement of loadTextures(): member = loadTexture(path).
LoadTextureStmt(img) ==
    /\ LoadIndex # 0
    /\ LET r == loadTexture(TexturePaths[LoadIndex], img, gl)
       IN  /\ textures' = [textures EXCEPT ![pc] = r[1]]
           /\ gl' = r[2]
           /\ glLog' = glLog \o r[3]
           /\ stderr' = stderr \o r[4]
    /\ pc' = IF LoadIndex < Len(TextureMembers) THEN TextureMembers[LoadIndex + 1]
             ELSE "texturesLoaded"
    /\ UNCHANGED <<hostVars, input, scene, flags, projVars, triBuf, lineBuf,
                   drawList, gProgram>>

NextTex == \E img \in Images \cup {NoImage} : LoadTextureStmt(img)

SpecTex == InitTex /\ [][NextTex]_vars


\* ------------------------------------------------- a DrawBuffer and a client
\* A DrawBuffer used through its interface by any caller: after init(), the
\* caller calls begin(), pushVertex(), the geometry helpers and
\* uploadAndDrawTriangles() in any order.  glLog records the calls since the
\* last begin().
InitBuf ==
    /\ pc = "client"
    /\ fbW = WinW /\ fbH = WinH
    /\ gWinW = WinW /\ gWinH = WinH /\ gPlan = FALSE
    /\ shouldClose = FALSE
    /\ events = 0
    /\ resized = NoResize
    /\ input = "none"
    /\ scene = EmptyScene
    /\ flags = DefaultFlags
    /\ scaleX = ScaleDen /\ scaleY = ScaleDen
    /\ canvasW = DefaultCanvasW /\ canvasH = DefaultCanvasH
    /\ proj = UnsetProj
    /\ triBuf = DrawBufferInit(NewDrawBuffer, NewGL)[1]
    /\ lineBuf = NewDrawBuffer
    /\ gl = DrawBufferInit(NewDrawBuffer, NewGL)[2]
    /\ glLog = <<>>
    /\ drawList = <<>>
    /\ gProgram = LinkedProgram /\ stderr = <<>> /\ textures = NoTextures

notBuf == <<fbW, fbH, gWinW, gWinH, gPlan, shouldClose, events, resized, input,
            scene, flags, scaleX, scaleY, canvasW, canvasH, proj, lineBuf, drawList,
            gProgram, stderr, textures>>

HelperCalls == {"pushVertex", "addRectTriangles", "addRectLines", "addRectTextured",
                "addCircleTriangles"}

\* Helper calls made since the last begin().
CallsMade == Cardinality({i \in 1..Len(glLog) : glLog[i].call \in HelperCalls})

\* The least segment count whose 3*segments vertices exceed the buffer store.
OverflowSegments == VboBytes \div (3 * FloatsPerVertex * SizeofFloat) + 1

\* Inputs of the client: two rectangles <<x, y, w, h>> (the first wall of the
\* default layout, and one with w = 0), two colours, and the segment counts
\* 1 and 20; a circle of OverflowSegments is pushed onto an empty batch only.
ClientColors == {White, doorColor}
ClientRects == {<<50, 50, 15, 700>>, <<5, 6, 0, 8>>}
ClientSegments ==
    {1, CircleSegments} \cup (IF triBuf.data = <<>> THEN {OverflowSegments} ELSE {})

\* The client may call a helper: fewer than MaxCalls made, and the batch not
\* yet uploaded.
CanAdd ==
    /\ CallsMade < MaxCalls
    /\ \A i \in 1..Len(glLog) : glLog[i].call \in HelperCalls

BufBegin ==
    /\ pc = "client"
    /\ triBuf' = begin(triBuf)
    /\ glLog' = <<>>
    /\ UNCHANGED <<pc, gl, notBuf>>

BufPushVertex(col) ==
    /\ pc = "client"
    /\ CanAdd
    /\ triBuf' = pushVertex(triBuf, Vertex(7, 9, col, 0, 0))
    /\ glLog' = Append(glLog, [call |-> "pushVertex"])
    /\ UNCHANGED <<pc, gl, notBuf>>

BufAddRectTriangles(r, col) ==
    /\ pc = "client"
    /\ CanAdd
    /\ triBuf' = addRectTriangles(triBuf, r[1], r[2], r[3], r[4], col)
    /\ glLog' = Append(glLog, [call |-> "addRectTriangles", rect |-> r, col |-> col])
    /\ UNCHANGED <<pc, gl, notBuf>>

BufAddRectLines(r, col) ==
    /\ pc = "client"
    /\ CanAdd
    /\ triBuf' = addRectLines(triBuf, r[1], r[2], r[3], r[4], col)
    /\ glLog' = Append(glLog, [call |-> "addRectLines", rect |-> r, col |-> col])
    /\ UNCHANGED <<pc, gl, notBuf>>

BufAddRectTextured(r, col) ==
    /\ pc = "client"
    /\ CanAdd
    /\ triBuf' = addRectTextured(triBuf, r[1], r[2], r[3], r[4], col)
    /\ glLog' = Append(glLog, [call |-> "addRectTextured", rect |-> r, col |-> col])
    /\ UNCHANGED <<pc, gl, notBuf>>

BufAddCircle(segments) ==
    /\ pc = "client"
    /\ CanAdd
    /\ triBuf' = addCircleTriangles(triBuf, 50, 60, 10, segments, White)
    /\ glLog' = Append(glLog, [call |-> "addCircleTriangles", segments |-> segments,
                                col |-> White])
    /\ UNCHANGED <<pc, gl, notBuf>>

\* uploadAndDrawTriangles(mode), once per batch.
BufUpload(mode) ==
    /\ pc = "client"
    /\ \A i \in 1..Len(glLog) : glLog[i].call \in HelperCalls
    /\ \E r \in uploadAndDrawTriangles(triBuf, gl, mode) :
          /\ gl' = r[1]
          /\ glLog' = glLog \o r[2]
          /\ pc' = IF r[3] = "terminated" THEN "crashed" ELSE "client"
    /\ UNCHANGED <<triBuf, notBuf>>

NextBuf ==
    \/ BufBegin
    \/ \E col \in ClientColors : BufPushVertex(col)
    \/ \E r \in ClientRects, col \in ClientColors : BufAddRectTriangles(r, col)
    \/ \E r \in ClientRects, col \in ClientColors : BufAddRectLines(r, col)
    \/ \E r \in ClientRects, col \in ClientColors : BufAddRectTextured(r, col)
    \/ \E n \in ClientSegments : BufAddCircle(n)
    \/ \E mode \in {GL_TRIANGLES, GL_LINES} : BufUpload(mode)

SpecBuf == InitBuf /\ [][NextBuf]_vars

\* ------------------------------------------------- the overlay pass alone
\* The five overlay steps of one frame applied to a FloorPlan whose public
\* members were set by its host: any combination of the six show* flags, a
\* projection computed by updateProjection for a non-empty viewport, and
\* collections holding one item of the default layout and one item placed at
\* (x, y), on or off the 1200 x 800 plan (the placed wall lies 200 units to
\* the left of the other placed items).
PlacesX == {-100, 600, 1100, 1300}
PlacesY == {-50, 400, 780}

OverlayScene(x, y) ==
    [EmptyScene EXCEPT
       !.floor = << RectItem(50, 50, 1100, 700, ExtWallCol, "Floor") >>,
       !.walls = << RectItem(50, 50, 15, 700, ExtWallCol, "Exterior Wall"),
                    RectItem(x - 200, y, 100, 10, IntWallCol, "Wall") >>,
       !.kitchen = << RectItem(x, y, 200, 80, FireCol, "") >>,
       !.tablesCircle = << CircleItem(x, y, 60, TableCol, "Table") >>,
       !.doors = << DoorItem(500, 50, 80, 10, "Main Entrance"),
                    DoorItem(x, y, 10, 50, "Back Door") >>,
       !.drains = << CircleItem(150, 150, 6, DrainCol, "Drain 1"),
                     CircleItem(x, y, 6, DrainCol, "") >>]

OverlayFlagNames == {"showLabels", "showDoorSwings", "showDimensions", "showDrains",
                     "showScaleBar"}

InitOverlay ==
    /\ pc = "doorSwings"
    /\ fbW = WinW /\ fbH = WinH
    /\ gWinW = WinW /\ gWinH = WinH /\ gPlan = TRUE
    /\ shouldClose = FALSE
    /\ events = 0
    /\ resized = NoResize
    /\ input = "none"
    /\ \E x \in PlacesX, y \in PlacesY : scene = OverlayScene(x, y)
    /\ \E off \in SUBSET OverlayFlagNames :
          flags = [f \in DOMAIN DefaultFlags |->
                     IF f \in off THEN FALSE ELSE DefaultFlags[f]]
    /\ \E sz \in Sizes \ {<<0, 0>>} :
          LET p == updateProjection(sz[1], sz[2])
          IN  /\ canvasW = p.canvasW /\ canvasH = p.canvasH
              /\ scaleX = p.scaleX /\ scaleY = p.scaleY
              /\ proj = p.proj
              /\ gl = [NewGL EXCEPT !.viewport = p.viewport]
    /\ triBuf = NewDrawBuffer /\ lineBuf = NewDrawBuffer
    /\ glLog = <<>>
    /\ drawList = <<>>
    /\ gProgram = LinkedProgram /\ stderr = <<>> /\ textures = NoTextures

NextOverlay ==
    \/ DrawDoorSwings
    \/ DrawFloorDrains
    \/ DrawDimensions
    \/ DrawScaleBar
    \/ DrawLabels

SpecOverlay == InitOverlay /\ [][NextOverlay]_vars

\* ================================================================== claims

\* C1: after updateProjection(w, h) both scale factors equal
\* s = min(w/1200, h/800), and scaleX = scaleY in every reachable state.
\* (s is the minimum: it is at most each ratio and equal to one of them.)
C1_UniformScale ==
    /\ scaleX = scaleY
    /\ scaleX * LogicalWidth <= canvasW * ScaleDen
    /\ scaleX * LogicalHeight <= canvasH * ScaleDen
    /\ \/ scaleX * LogicalWidth = canvasW * ScaleDen
       \/ scaleX * LogicalHeight = canvasH * ScaleDen

\* A frame rendered after a resize to 2400 x 800: the width ratio is 2, the
\* height ratio 1, and the scale factor is 1.
C1_Witness ==
    /\ pc = "render"
    /\ resized.w = 2 * LogicalWidth /\ resized.h = LogicalHeight
    /\ canvasW = 2 * LogicalWidth /\ canvasH = LogicalHeight
    /\ scaleX = ScaleDen

\* C2: after updateProjection one world unit covers the same number of pixels
\* horizontally and vertically, and at 2400 x 800 the scale is 1.0 and the
\* plan is not stretched: 600 world units cover 600 pixels, not 1200.
C2_NoStretch ==
    pc # "init" =>
      LET o == worldToScreenLabel(0, 0)
          p == worldToScreenLabel(2 * 600, 2 * 400)
          dx == RatAdd(p.x, RatNeg(o.x))
          dy == RatAdd(p.y, RatNeg(o.y))
      IN  /\ o.ok /\ p.ok
          /\ dx[1] * 400 * dy[2] = dy[1] * 600 * dx[2]
          /\ (canvasW = 2 * LogicalWidth /\ canvasH = LogicalHeight)
                => (scaleX = ScaleDen /\ dx = <<600, 1>>)

\* C3: whenever render() runs, canvasW x canvasH is the window's actual
\* framebuffer size.
C3_ProjectionMatchesFramebuffer ==
    pc = "render" => (canvasW = fbW /\ canvasH = fbH)

RenderedPcs == {"doorSwings", "drains", "dimensions", "scaleBar", "labels",
                "imguiRender", "swap"}

\* C4: in a frame whose resize callback delivered a zero-sized viewport, the
\* projection state is what it was before the callback and no render pass is
\* executed.
C4_ZeroSizeSkipsFrame ==
    (resized # NoResize /\ (resized.w <= 0 \/ resized.h <= 0)) =>
        /\ <<scaleX, scaleY, canvasW, canvasH, proj>> = resized.before
        /\ pc \notin RenderedPcs

\* C5: every upload of a batch fits the GPU storage allocated in
\* DrawBuffer::init: the bytes of each glBufferSubData, and of each batch as
\* accumulated, never exceed the size of the buffer's data store.
C5_UploadFits ==
    /\ \A i \in 1..Len(glLog) :
          glLog[i].call = "glBufferSubData" =>
             /\ glLog[i].bytes <= gl.buffers[glLog[i].vbo].size
             /\ glLog[i].ok
    /\ triBuf.vbo # 0 => DataBytes(triBuf) <= gl.buffers[triBuf.vbo].size
    /\ lineBuf.vbo # 0 => DataBytes(lineBuf) <= gl.buffers[lineBuf.vbo].size

\* Both batches of the default layout, grid on, have been uploaded: 804
\* triangle vertices and 444 line vertices of 32 bytes.
C5_Witness ==
    /\ pc = "doorSwings"
    /\ flags.showGrid
    /\ triBuf.vertexCount = 804 /\ lineBuf.vertexCount = 444
    /\ \E i \in 1..Len(glLog) :
          glLog[i].call = "glBufferSubData" /\ glLog[i].bytes = 804 * 32
    /\ \E i \in 1..Len(glLog) :
          glLog[i].call = "glBufferSubData" /\ glLog[i].bytes = 444 * 32

\* C9: whatever resets, frames and resizes happened, each collection holds
\* exactly the default layout: its items in order, with no duplicates added.
C9_ResetIdempotent ==
    pc # "init" =>
      /\ scene = DefaultLayout
      /\ [c \in CollNames |-> Len(scene[c])] =
            [c \in CollNames |->
               CASE c = "floor" -> 1 [] c = "walls" -> 8 [] c = "kitchen" -> 5
                 [] c = "bar" -> 1 [] c = "windows" -> 6 [] c = "restrooms" -> 2
                 [] c = "fire" -> 4 [] c = "tablesRect" -> 33
                 [] c = "tablesCircle" -> 7 [] c = "doors" -> 4 [] OTHER -> 3]

\* Reset Layout has been pressed in two frames (the only two events of the
\* run) and the second of these frames is being rendered.
C9_Witness ==
    /\ pc = "render"
    /\ input = "reset" /\ events = 2
    /\ flags = DefaultFlags /\ ~shouldClose
    /\ fbW = WinW /\ fbH = WinH /\ canvasW = InitW
    /\ Len(scene.drains) = 3

\* C10: a step changes the shape collections only if it is init or the Reset
\* Layout button: render, the overlay steps, updateProjection and the resize
\* callback leave them as they are.
C10_SceneOnlyReset ==
    [][scene' # scene => (pc = "init" \/ (pc = "controls" /\ input' = "reset"))]_vars

\* A frame that resized to 2400 x 800, rendered and ran every overlay step,
\* with the scene still the default layout.
C10_Witness ==
    /\ pc = "swap"
    /\ resized.w = 2 * LogicalWidth
    /\ triBuf.vertexCount > 0 /\ lineBuf.vertexCount > 0
    /\ Len(drawList) > 0
    /\ scene = DefaultLayout


\* C6: uploadAndDraw never issues a draw call for vertices that were not
\* uploaded: every glDrawArrays of count vertices follows a glBufferSubData
\* on the same buffer that succeeded and carried all count vertices, within a
\* store large enough for them (grown if need be); otherwise no draw is
\* issued.
C6_NoSilentOverrun ==
    \A i \in 1..Len(glLog) :
       glLog[i].call = "glDrawArrays" =>
          /\ glLog[i].count * FloatsPerVertex * SizeofFloat <= gl.buffers[glLog[i].vbo].size
          /\ \E j \in 1..(i - 1) :
                /\ glLog[j].call = "glBufferSubData"
                /\ glLog[j].vbo = glLog[i].vbo
                /\ glLog[j].ok
                /\ glLog[j].bytes = glLog[i].count * FloatsPerVertex * SizeofFloat


\* The commands of category cat in the draw list.
CmdsOf(cat) == {k \in 1..Len(drawList) : drawList[k].cat = cat}

\* C7: once the overlay pass is over, a category whose flag is false has no
\* draw command: labels, dimension lines, swing arcs, drain circles, and the
\* scale bar's line and text.
C7_FlagsSuppress ==
    pc = "imguiRender" =>
      /\ ~flags.showLabels => CmdsOf("label") = {}
      /\ ~flags.showDimensions => CmdsOf("dimension") = {}
      /\ ~flags.showDoorSwings => CmdsOf("swing") = {}
      /\ ~flags.showDrains => CmdsOf("drain") = {}
      /\ ~flags.showScaleBar => CmdsOf("scalebar") = {}

\* The world point (wx2/2, wy2/2) is rejected: scaled by the scale factors and
\* projected, its clip w is 0 or its NDC x or y lies outside [-1, 1].
Rejected(wx2, wy2) ==
    LET c == Clip(proj, wx2 * scaleX, wy2 * scaleY)
    IN  \/ c.w = 0
        \/ c.x[1] < -c.x[2] \/ c.x[1] > c.x[2]
        \/ c.y[1] < -c.y[2] \/ c.y[1] > c.y[2]

\* The anchor points (doubled) a draw command depends on.
AnchorsOf(cmd) ==
    LET it == IF cmd.cat = "scalebar" THEN [x |-> 0, y |-> 0, w |-> 0, h |-> 0, r |-> 0]
              ELSE IF cmd.cat = "dimension" THEN scene[cmd.coll][cmd.item[1]]
              ELSE scene[cmd.coll][cmd.item]
    IN  CASE cmd.cat = "swing" -> { <<2 * it.x, 2 * it.y>> }
          [] cmd.cat = "drain" -> { <<2 * it.x, 2 * it.y>> }
          [] cmd.cat = "label" ->
                IF cmd.coll \in {"tablesCircle", "drains"}
                THEN { <<2 * it.x, 2 * it.y>> }
                ELSE { <<2 * it.x + it.w, 2 * it.y + it.h>> }
          [] cmd.cat = "dimension" ->
                IF cmd.item[2] = "h"
                THEN { <<2 * it.x, 2 * (it.y + it.h + 5)>>,
                       <<2 * (it.x + it.w), 2 * (it.y + it.h + 5)>> }
                ELSE { <<2 * (it.x + it.w + 5), 2 * it.y>>,
                       <<2 * (it.x + it.w + 5), 2 * (it.y + it.h)>> }
          [] OTHER -> { <<2 * 60, 2 * 40>>, <<2 * 160, 2 * 40>> }

\* C8: no draw command is emitted for an item with a rejected anchor: every
\* command in the draw list has all its anchors accepted (the hinge for an
\* arc, the centre for a label or drain, both end points for a dimension line
\* and for the scale bar).
C8_RejectedNotDrawn ==
    \A k \in 1..Len(drawList) :
       \A a \in AnchorsOf(drawList[k]) : ~Rejected(a[1], a[2])

\* The overlay pass is over, all flags on; the placed door's hinge was
\* rejected and it has no arc while the other door has its 40 lines; the
\* placed wall has its horizontal dimension line but not its vertical one.
C8_Witness ==
    /\ pc = "imguiRender"
    /\ \A f \in OverlayFlagNames : flags[f]
    /\ Rejected(2 * scene.doors[2].x, 2 * scene.doors[2].y)
    /\ {k \in CmdsOf("swing") : drawList[k].item = 2} = {}
    /\ Cardinality({k \in CmdsOf("swing") : drawList[k].item = 1}) = 2 * SwingSegments
    /\ \E k \in CmdsOf("dimension") :
          drawList[k].coll = "walls" /\ drawList[k].item = <<2, "h">>
    /\ ~\E k \in CmdsOf("dimension") :
          drawList[k].coll = "walls" /\ drawList[k].item = <<2, "v">>

\* C11: updateProjection called with the (w, h) it was last called with
\* leaves canvasW, canvasH, scaleX, scaleY and the projection matrix as the
\* first call left them.
C11_UpdateProjectionIdempotent ==
    (/\ resized # NoResize
     /\ resized.w > 0 /\ resized.h > 0
     /\ resized.w = resized.before[3] /\ resized.h = resized.before[4])
       => <<scaleX, scaleY, canvasW, canvasH, proj>> = resized.before

\* The callback delivered 1200 x 800, the size plan.init had passed to
\* updateProjection, after the framebuffer had been 0 x 0; the frame is being
\* rendered with the unchanged projection.
C11_Witness ==
    /\ pc = "render"
    /\ resized # NoResize
    /\ resized.w = InitW /\ resized.h = InitH
    /\ resized.before[3] = InitW /\ resized.before[4] = InitH
    /\ events = 2
    /\ canvasW = InitW /\ canvasH = InitH /\ scaleX = ScaleDen
    /\ proj = Ortho(0, LogicalWidth * ScaleDen, LogicalHeight * ScaleDen, 0)

\* The vertices a batch holds, in the order pushed.
AllVertices(buf) == Flatten([i \in 1..Len(buf.data) |-> FanVertices(buf.data[i])])

\* Position of a vertex pushed with plain coordinates, and twice the signed
\* area of the triangle a, b, c.
Pos(v) == <<v.x, v.y>>
Cross(a, b, c) == (b.x - a.x) * (c.y - a.y) - (b.y - a.y) * (c.x - a.x)

\* The corners of the rectangle r = <<x, y, w, h>> in order round it, and its
\* four sides as corner pairs.
Corners(r) == << <<r[1], r[2]>>, <<r[1] + r[3], r[2]>>,
                 <<r[1] + r[3], r[2] + r[4]>>, <<r[1], r[2] + r[4]>> >>
Sides(r) == {{Corners(r)[i], Corners(r)[(i % 4) + 1]} : i \in 1..4}

\* The last helper call the client made in this step, if it made one.
HelperStep(names) ==
    /\ Len(glLog') = Len(glLog) + 1
    /\ glLog'[Len(glLog')].call \in names

\* C12: addRectTriangles appends exactly 6 vertices, addRectLines exactly 8
\* and addCircleTriangles exactly 3 * segments, all of the shape's colour; the
\* 6 are two triangles of the same winding covering the rectangle, the 8 are
\* its four sides as vertex pairs; the vertices the batch held stay as they
\* were.
C12_HelperVertexCounts ==
    [][HelperStep({"addRectTriangles", "addRectLines", "addCircleTriangles"}) =>
        \A c \in {glLog'[Len(glLog')]}, old \in {AllVertices(triBuf)},
           new \in {AllVertices(triBuf')} :
        \A p \in {SubSeq(new, Len(old) + 1, Len(new))} :
        LET k == CASE c.call = "addRectTriangles" -> 6
                   [] c.call = "addRectLines" -> 8
                   [] OTHER -> 3 * c.segments
        IN  /\ Len(new) = Len(old) + k
            /\ triBuf'.vertexCount = triBuf.vertexCount + k
            /\ SubSeq(new, 1, Len(old)) = old
            /\ \A i \in 1..Len(p) : p[i].col = c.col
            /\ c.call = "addRectTriangles" =>
                  /\ {Pos(p[i]) : i \in 1..6} = {Corners(c.rect)[i] : i \in 1..4}
                  /\ Cross(p[1], p[2], p[3]) = c.rect[3] * c.rect[4]
                  /\ Cross(p[4], p[5], p[6]) = c.rect[3] * c.rect[4]
            /\ c.call = "addRectLines" =>
                  {{Pos(p[2 * i - 1]), Pos(p[2 * i])} : i \in 1..4} = Sides(c.rect)
            /\ c.call = "addCircleTriangles" =>
                  (c.segments = CircleSegments => k = 60)
    ]_vars

\* A batch of 68 vertices: the outline of a 15 x 700 rectangle, then a circle
\* of 20 segments pushed behind it.
C12_Witness ==
    /\ pc = "client"
    /\ Len(glLog) = 2
    /\ glLog[1].call = "addRectLines" /\ glLog[1].rect = <<50, 50, 15, 700>>
    /\ glLog[2].call = "addCircleTriangles" /\ glLog[2].segments = CircleSegments
    /\ triBuf.vertexCount = 68
    /\ Len(AllVertices(triBuf)) = 68

\* The property of C13 for texture coordinates uvs, in emission order: an
\* addRectTextured step appends 6 vertices, at the positions addRectTriangles
\* gives the same rectangle, with texture coordinates uvs, and a vertex at
\* corner i of the rectangle carries corner i of the unit square.
TexturedStepEmits(uvs) ==
    HelperStep({"addRectTextured"}) =>
        \A c \in {glLog'[Len(glLog')]}, old \in {AllVertices(triBuf)},
           new \in {AllVertices(triBuf')} :
        \A p \in {SubSeq(new, Len(old) + 1, Len(new))},
           f \in {AllVertices(addRectTriangles(Fresh, c.rect[1], c.rect[2],
                                               c.rect[3], c.rect[4], c.col))} :
            /\ Len(p) = 6
            /\ [i \in 1..6 |-> Pos(p[i])] = [i \in 1..6 |-> Pos(f[i])]
            /\ [i \in 1..6 |-> <<p[i].u, p[i].v>>] = uvs
            /\ c.rect[3] > 0 /\ c.rect[4] > 0 =>
                  \A i \in 1..6, j \in 1..4 :
                     Pos(p[i]) = Corners(c.rect)[j] =>
                        <<p[i].u, p[i].v>> = Corners(<<0, 0, 1, 1>>)[j]

\* C13 as stated: the texture coordinates are, in emission order, (0,0),
\* (1,0), (1,1), (1,1), (0,1), (0,0).
C13_TexCoordsAsStated ==
    [][TexturedStepEmits(<< <<0, 0>>, <<1, 0>>, <<1, 1>>, <<1, 1>>, <<0, 1>>, <<0, 0>> >>)]_vars

\* C13 amended: addRectTextured emits 6 vertices at the positions of the
\* filled rectangle, with texture coordinates (0,0), (1,0), (1,1), (0,0),
\* (1,1), (0,1) in emission order, each corner of the rectangle carrying the
\* matching corner of the unit square.
C13_TexCoords ==
    [][TexturedStepEmits(<< <<0, 0>>, <<1, 0>>, <<1, 1>>, <<0, 0>>, <<1, 1>>, <<0, 1>> >>)]_vars

\* The 15 x 700 rectangle textured behind a vertex already in the batch.
C13_Witness ==
    /\ pc = "client"
    /\ Len(glLog) = 2
    /\ glLog[1].call = "pushVertex"
    /\ glLog[2].call = "addRectTextured" /\ glLog[2].rect = <<50, 50, 15, 700>>
    /\ triBuf.vertexCount = 7
    /\ triBuf.data[7].u = 0 /\ triBuf.data[7].v = 1

\* ------------------------------------------------------ float arithmetic
\* The coordinates render() batches are IEEE-754 binary32 values.  A
\* non-negative float is <<m, e>>, standing for m * 2^e with
\* 2^23 <= m < 2^24, or <<0, 0>> for zero; every operation rounds to nearest,
\* ties to even, as the hardware does.  (Exponents stay far inside the
\* binary32 range for the values of this program.)
RECURSIVE BitLen(_)
BitLen(n) == IF n = 0 THEN 0 ELSE 1 + BitLen(n \div 2)

RECURSIVE F32Norm(_, _)
F32Norm(m, e) ==
    IF m = 0 THEN <<0, 0>>
    ELSE IF m >= 2^23 THEN <<m, e>>
    ELSE F32Norm(2 * m, e - 1)

\* The float nearest to (hi * 4096 + lo) * 2^e, for 0 <= lo < 4096 and
\* 0 <= hi < 2^26.
F32Round(hi, lo, e) ==
    LET L == BitLen(hi)
    IN  IF L <= 12 THEN F32Norm(hi * 4096 + lo, e)
        ELSE LET d == L - 12
                 mant == IF d <= 12 THEN hi * 2^(12 - d) + lo \div 2^d
                         ELSE hi \div 2^(d - 12)
                 rem == IF d <= 12 THEN lo % 2^d
                        ELSE (hi % 2^(d - 12)) * 4096 + lo
                 half == 2^(d - 1)
                 up == rem > half \/ (rem = half /\ mant % 2 = 1)
                 m1 == IF up THEN mant + 1 ELSE mant
             IN  IF m1 = 2^24 THEN <<2^23, e + d + 1>> ELSE <<m1, e + d>>

\* (float)n for an integer 0 <= n < 2^24: exact.
F32FromInt(n) == F32Norm(n, 0)

\* Long division a / b bit by bit until the quotient q has 25 bits:
\* <<q, r, k>> with a / b = (q + r / b) * 2^-k.
RECURSIVE F32Quotient(_, _, _, _)
F32Quotient(q, r, k, b) ==
    IF q >= 2^24 THEN <<q, r, k>>
    ELSE F32Quotient(2 * q + (IF 2 * r >= b THEN 1 ELSE 0),
                     IF 2 * r >= b THEN 2 * r - b ELSE 2 * r, k + 1, b)

\* (float)a / (float)b for integers 0 <= a < 2^24, 0 < b < 2^24.
F32Div(a, b) ==
    IF a = 0 THEN <<0, 0>>
    ELSE LET t == F32Quotient(a \div b, a % b, 0, b)
             mant == t[1] \div 2
             up == t[1] % 2 = 1 /\ (t[2] # 0 \/ mant % 2 = 1)
             m1 == IF up THEN mant + 1 ELSE mant
         IN  IF m1 = 2^24 THEN <<2^23, 2 - t[3]>> ELSE <<m1, 1 - t[3]>>

\* (float)x * f for an integer 0 <= x < 4096.
F32MulInt(x, f) ==
    IF x = 0 \/ f[1] = 0 THEN <<0, 0>>
    ELSE LET p1 == (f[1] \div 4096) * x
             p0 == (f[1] % 4096) * x
         IN  F32Round(p1 + p0 \div 4096, p0 % 4096, f[2])

F32Less(f, g) ==
    IF f[1] = 0 THEN g[1] # 0
    ELSE IF g[1] = 0 THEN FALSE
    ELSE f[2] < g[2] \/ (f[2] = g[2] /\ f[1] < g[1])

\* f + g, with a the operand of the larger exponent.  The smaller operand
\* is aligned below 12 guard bits; bits shifted out below them are kept as a
\* sticky bit.
F32Add(f, g) ==
    IF f[1] = 0 THEN g
    ELSE IF g[1] = 0 THEN f
    ELSE LET a == IF f[2] >= g[2] THEN f ELSE g
             b == IF f[2] >= g[2] THEN g ELSE f
             diff == a[2] - b[2]
             near == diff <= 12
             shift == diff - 12
             aLow == IF near THEN (a[1] % 4096) * 2^diff ELSE 0
             aHi == IF near THEN (a[1] \div 4096) * 2^diff + aLow \div 4096 ELSE a[1]
             aLo == aLow % 4096
             bs == IF near THEN b[1]
                   ELSE IF shift >= 25 THEN 0 ELSE b[1] \div 2^shift
             sticky == ~near /\ (shift >= 25 \/ b[1] % 2^shift # 0)
             bLo0 == bs % 4096
             bLo == IF sticky /\ bLo0 % 2 = 0 THEN bLo0 + 1 ELSE bLo0
             lo == aLo + bLo
         IN  F32Round(aHi + bs \div 4096 + lo \div 4096, lo % 4096,
                      IF near THEN b[2] ELSE a[2] - 12)

\* ------------------------------------------- render()'s rectangles in float
\* The triangle batch of render() up to the rectangles, with scaleX, scaleY
\* and the vertex coordinates held as floats: the callback delivers a
\* viewport size, updateProjection computes the scale, and each iteration of
\* the rectangle loops of render() batches one rectangle.
F32Sizes == (Sizes \ {<<0, 0>>}) \cup {<<200, 300>>, <<1000, 700>>}

\* (float)w / 1200.0f, (float)h / 800.0f and the smaller of the two.
F32Scale(w, h) ==
    LET sx0 == F32Div(w, LogicalWidth)
        sy0 == F32Div(h, LogicalHeight)
    IN  IF F32Less(sx0, sy0) THEN sx0 ELSE sy0

\* The rectangles render() batches as triangles, in order: floor[0] and the
\* walls textured in white, then kitchen, bar, windows, restrooms, fire in
\* their colours, the doors in doorColor, and tablesRect.
RenderRects(sc) ==
    LET as(items, tex, dr) ==
          [i \in 1..Len(items) |->
             [x |-> items[i].x, y |-> items[i].y, w |-> items[i].w, h |-> items[i].h,
              color |-> IF tex THEN White ELSE IF dr THEN doorColor ELSE items[i].color,
              textured |-> tex]]
    IN  as(SubSeq(sc.floor, 1, 1), TRUE, FALSE) \o as(sc.walls, TRUE, FALSE)
        \o as(sc.kitchen, FALSE, FALSE) \o as(sc.bar, FALSE, FALSE)
        \o as(sc.windows, FALSE, FALSE) \o as(sc.restrooms, FALSE, FALSE)
        \o as(sc.fire, FALSE, FALSE) \o as(sc.doors, FALSE, TRUE)
        \o as(sc.tablesRect, FALSE, FALSE)

\* addRectTriangles that takes w and h for the far corner's coordinates.
addRectF32Extent(buf, x, y, w, h, color, textured) ==
    LET t == IF textured THEN 1 ELSE 0
        b1 == pushVertex(buf, Vertex(x, y, color, 0, 0))
        b2 == pushVertex(b1, Vertex(w, y, color, t, 0))
        b3 == pushVertex(b2, Vertex(w, h, color, t, t))
        b4 == pushVertex(b3, Vertex(x, y, color, 0, 0))
        b5 == pushVertex(b4, Vertex(w, h, color, t, t))
    IN  pushVertex(b5, Vertex(x, h, color, 0, t))

\* addRectTriangles (textured = FALSE) and addRectTextured (TRUE) on float
\* arguments: x+w and y+h are float additions.
addRectF32(buf, x, y, w, h, color, textured) ==
    LET t == IF textured THEN 1 ELSE 0
        xw == F32Add(x, w)
        yh == F32Add(y, h)
        b1 == pushVertex(buf, Vertex(x, y, color, 0, 0))
        b2 == pushVertex(b1, Vertex(xw, y, color, t, 0))
        b3 == pushVertex(b2, Vertex(xw, yh, color, t, t))
        b4 == pushVertex(b3, Vertex(x, y, color, 0, 0))
        b5 == pushVertex(b4, Vertex(xw, yh, color, t, t))
    IN  pushVertex(b5, Vertex(x, yh, color, 0, t))

F32One == F32FromInt(1)

InitF32 ==
    /\ pc = "f32poll"
    /\ fbW = WinW /\ fbH = WinH
    /\ gWinW = WinW /\ gWinH = WinH /\ gPlan = TRUE
    /\ shouldClose = FALSE
    /\ events = 0
    /\ resized = NoResize
    /\ input = "none"
    /\ scene = DefaultLayout
    /\ flags = DefaultFlags
    /\ scaleX = F32One /\ scaleY = F32One
    /\ canvasW = InitW /\ canvasH = InitH
    /\ proj = UnsetProj
    /\ triBuf = DrawBufferInit(NewDrawBuffer, NewGL)[1]
    /\ lineBuf = NewDrawBuffer
    /\ gl = DrawBufferInit(NewDrawBuffer, NewGL)[2]
    /\ glLog = <<>>
    /\ drawList = <<>>
    /\ gProgram = LinkedProgram /\ stderr = <<>> /\ textures = NoTextures

notF32 == <<gPlan, shouldClose, events, resized, input, scene, flags, proj,
            lineBuf, gl, glLog, drawList, gProgram, stderr, textures>>

\* framebuffer_size_cb(window, w, h) -> updateProjection(w, h): the scale.
F32Resize(w, h) ==
    /\ pc = "f32poll"
    /\ fbW' = w /\ fbH' = h /\ gWinW' = w /\ gWinH' = h
    /\ canvasW' = w /\ canvasH' = h
    /\ scaleX' = F32Scale(w, h) /\ scaleY' = F32Scale(w, h)
    /\ pc' = "f32begin"
    /\ UNCHANGED <<triBuf, notF32>>

\* render(): float sx = scaleX, sy = scaleY; triBuf.begin();
F32Begin ==
    /\ pc = "f32begin"
    /\ triBuf' = begin(triBuf)
    /\ pc' = "f32rects"
    /\ UNCHANGED <<fbW, fbH, gWinW, gWinH, canvasW, canvasH, scaleX, scaleY, notF32>>

\* One iteration of the rectangle loops:
\* addRect*(triBuf, r.x*sx, r.y*sy, r.w*sx, r.h*sy, color).
F32BatchRect ==
    /\ pc = "f32rects"
    /\ LET k == triBuf.vertexCount \div 6 + 1
       IN  /\ k <= Len(RenderRects(scene))
           /\ LET r == RenderRects(scene)[k]
              IN  triBuf' = addRectF32(triBuf, F32MulInt(r.x, scaleX), F32MulInt(r.y, scaleY),
                                       F32MulInt(r.w, scaleX), F32MulInt(r.h, scaleY),
                                       r.color, r.textured)
    /\ UNCHANGED <<pc, fbW, fbH, gWinW, gWinH, canvasW, canvasH, scaleX, scaleY, notF32>>

\* The last rectangle loop has ended.
F32RectsDone ==
    /\ pc = "f32rects"
    /\ triBuf.vertexCount \div 6 = Len(RenderRects(scene))
    /\ pc' = "f32circles"
    /\ UNCHANGED <<triBuf, fbW, fbH, gWinW, gWinH, canvasW, canvasH, scaleX, scaleY, notF32>>

NextF32 ==
    \/ \E sz \in F32Sizes : F32Resize(sz[1], sz[2])
    \/ F32Begin
    \/ F32BatchRect
    \/ F32RectsDone

SpecF32 == InitF32 /\ [][NextF32]_vars

\* The least and the greatest of a set of floats.
F32Min(S) == CHOOSE a \in S : \A b \in S : ~F32Less(b, a)
F32Max(S) == CHOOSE a \in S : \A b \in S : ~F32Less(a, b)

\* The bounding box <<minX, minY, maxX, maxY>> of the 6 vertices batched for
\* rectangle k.
BoxOf(k) ==
    LET vs == {triBuf.data[i] : i \in (6 * (k - 1) + 1)..(6 * k)}
    IN  << F32Min({v.x : v \in vs}), F32Min({v.y : v \in vs}),
           F32Max({v.x : v \in vs}), F32Max({v.y : v \in vs}) >>

Batched == 1..(IF pc \in {"f32rects", "f32circles"} THEN triBuf.vertexCount \div 6 ELSE 0)

\* C14 as stated: the 6 vertices batched for a rectangle have the bounding
\* box [x*s, y*s] to [(x+w)*s, (y+h)*s].
C14_BoundingBoxAsStated ==
    \A k \in Batched :
       LET r == RenderRects(scene)[k]
       IN  BoxOf(k) = << F32MulInt(r.x, scaleX), F32MulInt(r.y, scaleY),
                         F32MulInt(r.x + r.w, scaleX), F32MulInt(r.y + r.h, scaleY) >>

\* C14 amended: the bounding box is [x*s, y*s] to [x*s + w*s, y*s + h*s],
\* every product and sum rounded to float; where s is a power of two (1 or
\* 1/2) this is [(x+w)*s, (y+h)*s], and for the wall {50, 50, 15, 700} at
\* s = 1 it is [50, 50] to [65, 750].
C14_BoundingBox ==
    \A k \in Batched :
       LET r == RenderRects(scene)[k]
           box == BoxOf(k)
       IN  /\ box = << F32MulInt(r.x, scaleX), F32MulInt(r.y, scaleY),
                       F32Add(F32MulInt(r.x, scaleX), F32MulInt(r.w, scaleX)),
                       F32Add(F32MulInt(r.y, scaleY), F32MulInt(r.h, scaleY)) >>
           /\ scaleX[1] = 2^23 =>
                 box = << F32MulInt(r.x, scaleX), F32MulInt(r.y, scaleY),
                          F32MulInt(r.x + r.w, scaleX), F32MulInt(r.y + r.h, scaleY) >>
           /\ (scaleX = F32One /\ k = 2) =>
                 box = <<F32FromInt(50), F32FromInt(50), F32FromInt(65), F32FromInt(750)>>

\* All 64 rectangles batched at 200 x 300 (s = 1/6 rounded): the first wall's
\* box ends one float step below 750 * s.
C14_Witness ==
    /\ pc = "f32circles"
    /\ canvasW = 200 /\ canvasH = 300
    /\ triBuf.vertexCount = 6 * 64
    /\ BoxOf(2)[4] # F32MulInt(750, scaleY)
    /\ BoxOf(2)[3] = F32MulInt(65, scaleX)

\* ------------------------------------------------------------------- C15
\* Positions of main() inside the body of the main loop.
MainLoopPcs == {"poll", "newFrame", "controls", "clear", "render", "doorSwings",
                "drains", "dimensions", "scaleBar", "labels", "imguiRender",
                "swap"}

DrawCalls == {i \in 1..Len(glLog) : glLog[i].call = "glDrawArrays"}

\* C15: once createProgram has returned a program that failed to compile or
\* link, a diagnostic has been reported, the main loop is never entered and
\* no draw call is issued with the failed program.
C15_FailedProgramAborts ==
    (pc # "createProgram" /\ ~gProgram.linked) =>
        /\ stderr # <<>>
        /\ pc \notin MainLoopPcs
        /\ DrawCalls = {}

\* ------------------------------------------------------------------- C16
\* C16: a loadTexture whose stbi_load fails writes one diagnostic, returns 0,
\* makes no GL call and leaves the context as it was (no texture object
\* created or bound), and the caller goes on to its next statement; a
\* loadTexture that returns a non-zero handle had a successful decode, and the
\* handle names the texture object it created and left bound.
C16_LoadTextureFailure ==
    [][\A m \in {pc}, c \in {glLog'[Len(glLog) + 1]} :
          /\ c.call = "stbi_load"
          /\ ~c.result.data =>
                /\ Len(stderr') = Len(stderr) + 1
                /\ textures'[m] = 0
                /\ gl' = gl
                /\ Len(glLog') = Len(glLog) + 1
                /\ pc' \in {TextureMembers[i] : i \in DOMAIN TextureMembers}
                            \cup {"texturesLoaded"}
          /\ textures'[m] # 0 =>
                /\ c.result.data
                /\ stderr' = stderr
                /\ Len(gl'.textures) = Len(gl.textures) + 1
                /\ textures'[m] = Len(gl'.textures)
                /\ gl'.boundTexture = textures'[m]
                /\ gl'.textures[textures'[m]].w = c.result.w]_vars

\* loadTextures() has run to its end with the first decode failed and the
\* second successful.
C16_Witness ==
    /\ pc = "texturesLoaded"
    /\ textures["floorTexture"] = 0
    /\ textures["wallTexture"] = 1
    /\ Len(stderr) = 1
    /\ stderr[1] = "Failed to load texture floor.jpg"

\* ------------------------------------------------------------------- C17
\* The calls in the log that delete an object.
Deletions == {i \in 1..Len(glLog) :
                glLog[i].call \in {"glDeleteBuffers", "glDeleteVertexArrays",
                                   "glDeleteProgram"}}

\* The positions main() goes through after the glfwPollEvents in which the
\* close request arrived: the rest of that frame, the loop test, the code
\* after the loop, the end.
AfterClose == <<"newFrame", "controls", "clear", "render", "doorSwings", "drains",
                "dimensions", "scaleBar", "labels", "imguiRender", "swap",
                "loopTest", "shutdown", "done">>

ClosePos(p) ==
    IF \E i \in DOMAIN AfterClose : AfterClose[i] = p
    THEN CHOOSE i \in DOMAIN AfterClose : AfterClose[i] = p
    ELSE 0

\* C17: once close has been requested main() is in the frame in progress or
\* past the loop, and each step takes it to the next position of AfterClose
\* (the frame is completed, the loop test leaves the loop, no further frame
\* is polled, the next stop after the loop is the shutdown code); at the end
\* every buffer object created at startup, the vertex array of triBuf and of
\* lineBuf, and the shader program have each been deleted exactly once and
\* nothing else has.
C17_CloseReleasesAll ==
    /\ [][shouldClose => ClosePos(pc') = ClosePos(pc) + 1]_vars
    /\ [](shouldClose => ClosePos(pc) > 0)
    /\ [](pc = "done" =>
            /\ triBuf.vbo # lineBuf.vbo /\ triBuf.vao # lineBuf.vao
            /\ {triBuf.vbo, lineBuf.vbo} = 1..Len(gl.buffers)
            /\ \A b \in {triBuf, lineBuf} :
                  /\ Cardinality({i \in Deletions :
                        glLog[i].call = "glDeleteBuffers" /\ glLog[i].vbo = b.vbo}) = 1
                  /\ Cardinality({i \in Deletions :
                        glLog[i].call = "glDeleteVertexArrays"
                        /\ glLog[i].vao = b.vao}) = 1
            /\ Cardinality({i \in Deletions :
                  glLog[i].call = "glDeleteProgram"
                  /\ glLog[i].program = gProgram.id}) = 1
            /\ Cardinality(Deletions) = 5)

\* main() has ended after a close request that arrived as the second event.
C17_Witness ==
    /\ pc = "done"
    /\ shouldClose
    /\ events = 2
    /\ Cardinality(Deletions) = 5

\* ------------------------------------------------------------------- C18
\* The frame step of the stated state machine that a position of main()
\* belongs to: 1 PollEvents (with Resize and ProjectionUpdate), 2 ClearFrame,
\* 3 BatchGeometry, 4 DrawBatches, 5 OverlayPass, 6 UIPass, 7 Present; 0 for
\* a position that is none of them.  render() is one position; the order of
\* batching and drawing inside it is read from the call log.
StatedStep(p) ==
    CASE p = "poll" -> {1}
      [] p = "clear" -> {2}
      [] p = "render" -> {3, 4}
      [] p \in {"doorSwings", "drains", "dimensions", "scaleBar", "labels"} -> {5}
      [] p = "imguiRender" -> {6}
      [] p = "swap" -> {7}
      [] OTHER -> {0}

\* The batching and drawing calls of the log, in order.
BatchAndDraw == SelectSeq(glLog, LAMBDA c : c.call \in {"begin", "glDrawArrays"})

\* A step inside the loop body stays in a stated frame step or moves to the
\* next one (the last one leaves the body).
StatedFrameStep ==
    pc \in MainLoopPcs =>
        \/ pc = "swap" /\ pc' = "loopTest"
        \/ \E a \in StatedStep(pc), b \in StatedStep(pc') :
              a # 0 /\ b # 0 /\ b \in {a, a + 1}

\* C18 as stated: every step of the loop body follows the stated order of
\* frame steps, and both batches are begun before either is drawn.
C18_FrameOrderAsStated ==
    /\ [][StatedFrameStep]_vars
    /\ [](\A i, j \in DOMAIN BatchAndDraw :
            (BatchAndDraw[i].call = "begin" /\ BatchAndDraw[j].call = "glDrawArrays")
                => i < j)

\* A step inside the loop body as the code takes it.
FrameStep ==
    pc \in MainLoopPcs =>
        /\ \/ pc = "poll" /\ pc' = "newFrame"
           \/ pc # "poll" /\ ClosePos(pc') = ClosePos(pc) + 1
        /\ projVars' # projVars => pc = "poll"
        /\ Len(drawList') > Len(drawList) => StatedStep(pc) = {5}
        /\ pc = "render" =>
              \A bd \in {SelectSeq(glLog', LAMBDA c : c.call \in {"begin", "glDrawArrays"})} :
                 /\ Len(bd) = 4
                 /\ bd[1].call = "begin" /\ bd[1].buf = "triBuf"
                 /\ bd[2].call = "glDrawArrays" /\ bd[2].mode = GL_TRIANGLES
                 /\ bd[3].call = "begin" /\ bd[3].buf = "lineBuf"
                 /\ bd[4].call = "glDrawArrays" /\ bd[4].mode = GL_LINES
                 /\ glLog'[1].call = "glClear"

\* C18: every iteration of the main loop goes through PollEvents (with the
\* resize callback and its projection update inside it), the UI frame start,
\* the Controls widgets, ClearFrame, render, the five overlay steps, the UI
\* render and Present, in this order and no others; inside render the fill
\* batch is begun and drawn before the outline batch is begun and drawn; the
\* projection changes only in PollEvents and the overlay list grows only in
\* the overlay steps.
C18_FrameOrder == [][FrameStep]_vars

\* A frame with a resize in its PollEvents has reached Present.
C18_Witness ==
    /\ pc = "swap"
    /\ resized # NoResize
    /\ Len(BatchAndDraw) = 4
    /\ Len(drawList) > 0

\* ------------------------------------------------------------------- C19
\* C19: an uploadAndDrawTriangles on an empty batch issues no call and leaves
\* the context as it was; on a non-empty batch it issues exactly one
\* glBufferSubData, which transfers all vertexCount vertices of the list, and
\* exactly one glDrawArrays, of vertexCount vertices, and leaves no texture
\* bound to GL_TEXTURE_2D.
C19_UploadAndDraw ==
    [][(pc = "client" /\ triBuf' = triBuf /\ Len(glLog') >= Len(glLog)) =>
         \A new \in {SubSeq(glLog', Len(glLog) + 1, Len(glLog'))} :
          (\A i \in DOMAIN new : new[i].call \notin HelperCalls) =>
            /\ triBuf.data = <<>> => (new = <<>> /\ gl' = gl)
            /\ triBuf.data # <<>> =>
                  /\ \A up \in {SelectSeq(new, LAMBDA c : c.call = "glBufferSubData")} :
                        /\ Len(up) = 1
                        /\ up[1].vbo = triBuf.vbo
                        /\ up[1].bytes = triBuf.vertexCount * FloatsPerVertex * SizeofFloat
                        /\ up[1].ok
                  /\ \A dr \in {SelectSeq(new, LAMBDA c : c.call = "glDrawArrays")} :
                        /\ Len(dr) = 1
                        /\ dr[1].count = triBuf.vertexCount
                  /\ gl'.boundTexture = 0]_vars

\* ------------------------------------------------------------------- C20
\* The lines drawDoorSwings has drawn for door i, in order.
SwingOf(i) == SelectSeq(drawList, LAMBDA c : c.cat = "swing" /\ c.item = i)

\* C20 as stated: once drawDoorSwings is over, the swing overlay of every
\* door whose hinge was accepted consists of exactly 20 lines, each a chord of
\* the circle centred at the projected pixel of (x, y) with radius
\* (w+h)/2 * s, each starting where the previous one ended, the first
\* starting at angle 0 and the last ending at a quarter turn.
C20_SwingArcAsStated ==
    (pc = "drains" /\ flags.showDoorSwings) =>
      \A i \in 1..Len(scene.doors) :
        \A d \in {scene.doors[i]}, arc \in {SwingOf(i)} :
          \A c \in {worldToScreenSwing(2 * d.x, 2 * d.y)} :
            c.ok =>
              /\ Len(arc) = SwingSegments
              /\ \A k \in 1..Len(arc) :
                    /\ arc[k].prim = "line"
                    /\ \A e \in {arc[k].a, arc[k].b} :
                          /\ e.x = c.x /\ e.y = c.y
                          /\ e.rad = Rat((d.w + d.h) * scaleX, 2 * ScaleDen)
                    /\ k > 1 => arc[k].a = arc[k - 1].b
              /\ arc[1].a.ang[1] = 0
              /\ 4 * arc[Len(arc)].b.ang[1] = arc[Len(arc)].b.ang[2]

\* The second line of each loop iteration (p1 -> p2) and the first
\* (centre -> p1).
Chords(i) == [k \in 1..(Len(SwingOf(i)) \div 2) |-> SwingOf(i)[2 * k]]
Spokes(i) == [k \in 1..(Len(SwingOf(i)) \div 2) |-> SwingOf(i)[2 * k - 1]]

\* C20: once drawDoorSwings is over, the swing overlay of every door whose
\* hinge was accepted consists of exactly 40 lines: 20 chords of the circle
\* centred at the projected pixel of (x, y) with radius (w+h)/2 * s, each
\* starting where the previous one ended, the first starting at angle 0 and
\* the last ending at a quarter turn, and before each chord a line from the
\* centre to the chord's start.
C20_SwingArc ==
    (pc = "drains" /\ flags.showDoorSwings) =>
      \A i \in 1..Len(scene.doors) :
        \A d \in {scene.doors[i]}, arc \in {Chords(i)}, sp \in {Spokes(i)} :
          \A c \in {worldToScreenSwing(2 * d.x, 2 * d.y)} :
            c.ok =>
              /\ Len(SwingOf(i)) = 2 * SwingSegments
              /\ Len(arc) = SwingSegments
              /\ \A k \in 1..Len(arc) :
                    /\ arc[k].prim = "line" /\ sp[k].prim = "line"
                    /\ \A e \in {arc[k].a, arc[k].b} :
                          /\ e.x = c.x /\ e.y = c.y
                          /\ e.rad = Rat((d.w + d.h) * scaleX, 2 * ScaleDen)
                    /\ k > 1 => arc[k].a = arc[k - 1].b
                    /\ sp[k].a = Pt(c.x, c.y) /\ sp[k].b = arc[k].a
              /\ arc[1].a.ang[1] = 0
              /\ 4 * arc[Len(arc)].b.ang[1] = arc[Len(arc)].b.ang[2]

\* drawDoorSwings is over on a resized canvas; the door (500,50,80,10) has
\* its 40 lines, of radius 45 * s.
C20_Witness ==
    /\ pc = "drains" /\ flags.showDoorSwings
    /\ scaleX # ScaleDen
    /\ scene.doors[1].x = 500 /\ scene.doors[1].y = 50
    /\ scene.doors[1].w = 80 /\ scene.doors[1].h = 10
    /\ Len(SwingOf(1)) = 2 * SwingSegments
    /\ SwingOf(1)[2].a.rad = Rat(45 * scaleX, ScaleDen)
    /\ SwingOf(1)[2 * SwingSegments].b.ang = <<SwingSegments, 4 * SwingSegments>>

\* ------------------------------------------------------------------- C21
\* World points (doubled) on and around the 1200 x 800 plan.
W2SPoints == {<<x2, y2>> : x2 \in {0, 1, 1000, 2400, 2600}, y2 \in {0, 1, 620, 1600, 1700}}

\* C21: once the plan is initialised, the five copies of worldToScreen return
\* the same result for the same point; an accepted point's pixel is
\* ((ndc.x*0.5+0.5)*canvasW, (1-(ndc.y*0.5+0.5))*canvasH) for the NDC of the
\* scaled point under proj; the world origin is accepted and maps to pixel
\* (0, 0); and of two accepted points the one with the larger world x (y) has
\* the larger pixel x (y).
C21_WorldToScreen ==
    gPlan =>
      \A f \in {[p \in W2SPoints |-> worldToScreenLabel(p[1], p[2])]} :
        /\ \A p \in W2SPoints :
             \A a \in {f[p]} :
               /\ worldToScreenSwing(p[1], p[2]) = a
               /\ worldToScreenDim(p[1], p[2]) = a
               /\ worldToScreenDrain(p[1], p[2]) = a
               /\ worldToScreenBar(p[1], p[2]) = a
               /\ a.ok =>
                     \A ndc \in {Clip(proj, p[1] * scaleX, p[2] * scaleY)} :
                        /\ 2 * ndc.x[2] * a.x[1] = (ndc.x[1] + ndc.x[2]) * canvasW * a.x[2]
                        /\ 2 * ndc.y[2] * a.y[1] = (ndc.y[2] - ndc.y[1]) * canvasH * a.y[2]
               /\ p = <<0, 0>> => (a.ok /\ a.x[1] = 0 /\ a.y[1] = 0)
        /\ \A p \in W2SPoints, q \in W2SPoints :
             /\ (p[1] < q[1] /\ f[p].ok /\ f[q].ok) => RatLess(f[p].x, f[q].x)
             /\ (p[2] < q[2] /\ f[p].ok /\ f[q].ok) => RatLess(f[p].y, f[q].y)

\* The labels step of a frame on a resized canvas: one test point is accepted
\* away from the origin and another is rejected.
C21_Witness ==
    /\ pc = "labels"
    /\ canvasW # InitW
    /\ worldToScreenLabel(1000, 620).ok
    /\ worldToScreenLabel(1000, 620).y[1] > 0
    /\ ~worldToScreenDrain(2600, 0).ok

\* ------------------------------------------------------------------- C22
\* From the start of render() to the end of the last overlay step nothing
\* changes the projection state, the flags or the scene.
FrameStable ==
    pc \in {"render", "doorSwings", "drains", "dimensions", "scaleBar", "labels"} =>
        (projVars' = projVars /\ flags' = flags /\ scene' = scene)

\* The projection state changes only in plan.init and in a glfwPollEvents
\* that delivered a non-empty size to the resize callback.
ProjectionOnResize ==
    projVars' # projVars =>
        \/ pc = "init"
        \/ (pc = "poll" /\ resized' # NoResize /\ resized'.w > 0 /\ resized'.h > 0
             /\ <<scaleX', scaleY', canvasW', canvasH', proj'>> # resized'.before)

\* C22: the projection state and the flags (and the scene) are the same from
\* the start of render() to the end of the last overlay step of a frame, and
\* the projection is updated only by init and by the resize callback inside
\* PollEvents.
C22_ProjectionFixedInFrame == [][FrameStable /\ ProjectionOnResize]_vars

\* The UI render of a frame whose PollEvents resized the canvas and whose
\* Controls window toggled a flag.
C22_Witness ==
    /\ pc = "imguiRender"
    /\ resized # NoResize /\ resized.w > 0
    /\ <<scaleX, scaleY, canvasW, canvasH, proj>> # resized.before
    /\ input \in DOMAIN flags
    /\ Len(drawList) > 0

\* ------------------------------------------------------------------- C23
\* The begin(), upload and draw calls of the log, in order.
BatchCalls ==
    SelectSeq(glLog, LAMBDA c : c.call \in {"begin", "glBufferSubData", "glDrawArrays"})

\* C23: in a frame, before render() no batch call has been made; after it
\* the calls are begin() of triBuf, one upload and one draw of triBuf's
\* whole list, then begin() of lineBuf, one upload and one draw of lineBuf's
\* whole list, and nothing else; each list drawn is exactly what the frame's
\* pushes put on an emptied list.
C23_BatchLifecycle ==
    /\ pc \in {"controls", "clear", "render"} => BatchCalls = <<>>
    /\ pc \in RenderedPcs =>
          \A bc \in {BatchCalls} :
             /\ Len(bc) = 6
             /\ bc[1].call = "begin" /\ bc[1].buf = "triBuf"
             /\ bc[2].call = "glBufferSubData" /\ bc[2].vbo = triBuf.vbo
             /\ bc[2].bytes = triBuf.vertexCount * FloatsPerVertex * SizeofFloat
             /\ bc[3].call = "glDrawArrays" /\ bc[3].vbo = triBuf.vbo
             /\ bc[3].mode = GL_TRIANGLES /\ bc[3].count = triBuf.vertexCount
             /\ bc[4].call = "begin" /\ bc[4].buf = "lineBuf"
             /\ bc[5].call = "glBufferSubData" /\ bc[5].vbo = lineBuf.vbo
             /\ bc[5].bytes = lineBuf.vertexCount * FloatsPerVertex * SizeofFloat
             /\ bc[6].call = "glDrawArrays" /\ bc[6].vbo = lineBuf.vbo
             /\ bc[6].mode = GL_LINES /\ bc[6].count = lineBuf.vertexCount
             /\ triBuf.vbo # lineBuf.vbo
             /\ triBuf.data = TriangleBatch(NewDrawBuffer, scene, scaleX, scaleY).data
             /\ lineBuf.data = LineBatch(NewDrawBuffer, scene, flags, scaleX, scaleY).data

\* The overlays of the second frame, drawn with the grid switched off in
\* that frame: the line batch is shorter than the first frame's.
C23_Witness ==
    /\ pc = "doorSwings"
    /\ input = "showGrid" /\ ~flags.showGrid
    /\ Len(BatchCalls) = 6
    /\ lineBuf.vertexCount < 444
    /\ lineBuf.vertexCount > 0

\* ------------------------------------------------------------------- C24
\* The collections drawDimensions passes to drawRectDims.
DimensionedColls == {"walls", "bar", "windows"}

\* The dimension commands of item i of collection coll on the given axis.
DimOf(coll, i, axis) ==
    SelectSeq(drawList, LAMBDA c : c.cat = "dimension" /\ c.coll = coll
                                   /\ c.item = <<i, axis>>)

\* The dimension of rectangle r on an axis is drawn from world point p to
\* world point q (both doubled) and labelled value: both end points are
\* accepted, the first command is the line between their pixels, and there
\* is exactly one text, which reads value.
DimensionDrawn(cmds, p, q, value) ==
    \A a \in {worldToScreenDim(p[1], p[2])}, b \in {worldToScreenDim(q[1], q[2])} :
       /\ a.ok /\ b.ok
       /\ Len(cmds) > 0
       /\ cmds[1].prim = "line"
       /\ cmds[1].a = Pt(a.x, a.y) /\ cmds[1].b = Pt(b.x, b.y)
       /\ \A t \in {SelectSeq(cmds, LAMBDA c : c.prim = "text")} :
             Len(t) = 1 /\ t[1].b = value

\* C24: once drawDimensions is over with showDimensions on, every rectangle
\* (x,y,w,h) of walls, bar and windows has a horizontal dimension line from
\* (x, y+h+5) to (x+w, y+h+5) labelled w and a vertical one from (x+w+5, y)
\* to (x+w+5, y+h) labelled h, whatever the scale factor.
C24_DimensionLines ==
    (pc \in {"scaleBar", "labels", "imguiRender", "swap"} /\ flags.showDimensions) =>
      \A coll \in DimensionedColls :
        \A i \in 1..Len(scene[coll]) :
          \A r \in {scene[coll][i]} :
            /\ DimensionDrawn(DimOf(coll, i, "h"),
                              <<2 * r.x, 2 * (r.y + r.h + 5)>>,
                              <<2 * (r.x + r.w), 2 * (r.y + r.h + 5)>>, r.w)
            /\ DimensionDrawn(DimOf(coll, i, "v"),
                              <<2 * (r.x + r.w + 5), 2 * r.y>>,
                              <<2 * (r.x + r.w + 5), 2 * (r.y + r.h)>>, r.h)

\* drawDimensions is over on a canvas scaled away from 1: the wall
\* (50,50,15,700) has its vertical dimension labelled 700.
C24_Witness ==
    /\ pc = "scaleBar" /\ flags.showDimensions
    /\ scaleX # ScaleDen
    /\ \E i \in 1..Len(scene.walls) :
          /\ scene.walls[i].x = 50 /\ scene.walls[i].y = 50
          /\ scene.walls[i].w = 15 /\ scene.walls[i].h = 700
          /\ \E k \in 1..Len(DimOf("walls", i, "v")) :
                /\ DimOf("walls", i, "v")[k].prim = "text"
                /\ DimOf("walls", i, "v")[k].b = 700

\* ------------------------------------------------------------------- C25
\* A label overlay command (background plate or text) of item i of coll,
\* from the label pass or from the drain pass.
LabelOverlay(coll, i) ==
    {k \in 1..Len(drawList) :
        /\ drawList[k].cat \in {"label", "drain"}
        /\ drawList[k].prim \in {"rect", "text"}
        /\ drawList[k].coll = coll /\ drawList[k].item = i}

\* The label anchor (doubled) of item i of coll: the centre.
LabelAnchor(coll, i) ==
    IF coll \in {"tablesCircle", "drains"}
    THEN <<2 * scene[coll][i].x, 2 * scene[coll][i].y>>
    ELSE <<2 * scene[coll][i].x + scene[coll][i].w, 2 * scene[coll][i].y + scene[coll][i].h>>

\* C25: once the overlay pass is over, an item has a label overlay if and
\* only if showLabels is on, its label is non-empty and its anchor is
\* accepted; an item with an empty label has none.
C25_LabelIff ==
    pc = "imguiRender" =>
      \A coll \in CollNames :
        \A i \in 1..Len(scene[coll]) :
          /\ LabelOverlay(coll, i) # {} <=>
                /\ flags.showLabels
                /\ scene[coll][i].label # ""
                /\ ~Rejected(LabelAnchor(coll, i)[1], LabelAnchor(coll, i)[2])
          /\ scene[coll][i].label = "" => LabelOverlay(coll, i) = {}

\* ------------------------------------------------------------------- C26
\* The display names of the four doors, in push order.
DoorNames == <<"Main Entrance", "Back Door", "Emergency Exit", "Side Door">>

\* The label texts the overlay pass drew for door i.
DoorLabelTexts(i) ==
    {k \in 1..Len(drawList) :
        /\ drawList[k].cat = "label" /\ drawList[k].prim = "text"
        /\ drawList[k].coll = "doors" /\ drawList[k].item = i}

\* C26: after setupDefaultLayout each of the four doors carries its display
\* name in its label field, and with showLabels on the label pass emits
\* exactly one label for every door whose centre is accepted.
C26_DoorLabels ==
    /\ gPlan =>
          /\ Len(scene.doors) = Len(DoorNames)
          /\ \A i \in 1..Len(scene.doors) : scene.doors[i].label = DoorNames[i]
    /\ (pc = "imguiRender" /\ flags.showLabels) =>
          \A i \in 1..Len(scene.doors) :
             ~Rejected(LabelAnchor("doors", i)[1], LabelAnchor("doors", i)[2])
                => Cardinality(DoorLabelTexts(i)) = 1

\* ------------------------------------------------------------------- C27
\* The state render() had set while it accumulated vertex v of the triangle
\* batch: the floor quad (6 vertices) under useTexture = true and the floor
\* texture, the wall quads under useTexture = true and the wall texture,
\* every later vertex under useTexture = false.
AccumulatedUnder(v) ==
    IF v <= 6 THEN [useTexture |-> TRUE, tex |-> floorTexture]
    ELSE IF v <= 6 * (1 + Len(scene.walls)) THEN [useTexture |-> TRUE, tex |-> wallTexture]
    ELSE [useTexture |-> FALSE, tex |-> wallTexture]

\* C27: the draw call of the triangle batch runs, for each of its vertices,
\* under the state that was set while the vertex was accumulated: texturing
\* on with the floor texture for the floor quad, on with the wall texture for
\* the wall quads, off for the coloured shapes.
C27_DrawState ==
    pc \in RenderedPcs =>
      \A k \in DrawCalls :
        glLog[k].mode = GL_TRIANGLES =>
          \A v \in 1..glLog[k].count :
             /\ glLog[k].useTexture = AccumulatedUnder(v).useTexture
             /\ AccumulatedUnder(v).useTexture => glLog[k].tex = AccumulatedUnder(v).tex

\* ------------------------------------------------------------------- C28
\* C28: render() runs only on an initialised plan, and from init on (through
\* every Reset Layout and every resize) the floor collection holds exactly
\* one rectangle, so floor[0] exists whenever render() reads it.
C28_FloorNeverEmpty ==
    /\ pc = "render" => gPlan
    /\ gPlan => Len(scene.floor) = 1

\* render() is about to run in a frame in which Reset Layout was pressed,
\* after a resize.
C28_Witness ==
    /\ pc = "render" /\ input = "reset"
    /\ <<fbW, fbH>> # <<WinW, WinH>>
    /\ Len(scene.floor) = 1

\* ------------------------------------------------------------------- C29
\* The anchors (doubled) of the overlay items of the scene: label centres,
\* door hinges, drain centres, the end points of the dimension lines and the
\* two end points of the scale bar.
LayoutAnchors ==
    UNION {{LabelAnchor(coll, i) : i \in 1..Len(scene[coll])} : coll \in CollNames \ {"floor"}}
    \cup {<<2 * scene.doors[i].x, 2 * scene.doors[i].y>> : i \in 1..Len(scene.doors)}
    \cup {<<2 * scene.drains[i].x, 2 * scene.drains[i].y>> : i \in 1..Len(scene.drains)}
    \cup UNION {UNION {{<<2 * r.x, 2 * (r.y + r.h + DimOffset)>>,
                         <<2 * (r.x + r.w), 2 * (r.y + r.h + DimOffset)>>,
                         <<2 * (r.x + r.w + DimOffset), 2 * r.y>>,
                         <<2 * (r.x + r.w + DimOffset), 2 * (r.y + r.h)>>}
                        : r \in {scene[coll][i] : i \in 1..Len(scene[coll])}}
                 : coll \in DimensionedColls}
    \cup {<<120, 80>>, <<320, 80>>}

\* World points (doubled) on, just outside and far outside the plan.
EdgePoints ==
    W2SPoints \cup {<<2401, 800>>, <<1200, 1601>>, <<-1, 800>>, <<1200, -1>>}

\* C29: on an initialised plan, whatever the viewport size, the NDC of a world
\* point (wx, wy) is (2*wx/1200 - 1, 1 - 2*wy/800); the point is accepted
\* exactly when 0 <= wx <= 1200 and 0 <= wy <= 800; every anchor of the
\* layout is accepted; and once the overlay pass is over every door has its
\* swing arc, every drain its circle, every dimensioned rectangle both
\* dimension lines, every labelled item of the label pass its label, and the
\* scale bar is drawn.
C29_NdcIndependentOfViewport ==
    gPlan =>
      /\ \A A \in {LayoutAnchors} :
           \A p \in EdgePoints \cup A :
             \A c \in {Clip(proj, p[1] * scaleX, p[2] * scaleY)},
                ok \in {worldToScreenDim(p[1], p[2]).ok} :
               /\ c.w # 0
               /\ c.x[1] * LogicalWidth = (p[1] - LogicalWidth) * c.x[2]
               /\ c.y[1] * LogicalHeight = (LogicalHeight - p[2]) * c.y[2]
               /\ ok <=>
                     /\ 0 <= p[1] /\ p[1] <= 2 * LogicalWidth
                     /\ 0 <= p[2] /\ p[2] <= 2 * LogicalHeight
               /\ p \in A => (ok /\ worldToScreenDrain(p[1], p[2]).ok)
      /\ pc = "imguiRender" =>
            /\ flags.showDoorSwings =>
                  \A i \in 1..Len(scene.doors) :
                     \E k \in CmdsOf("swing") : drawList[k].item = i
            /\ flags.showDrains =>
                  \A i \in 1..Len(scene.drains) :
                     \E k \in CmdsOf("drain") : drawList[k].item = i
            /\ flags.showDimensions =>
                  \A coll \in DimensionedColls : \A i \in 1..Len(scene[coll]) :
                     DimOf(coll, i, "h") # <<>> /\ DimOf(coll, i, "v") # <<>>
            /\ flags.showLabels =>
                  \A coll \in CollNames \ {"floor"} : \A i \in 1..Len(scene[coll]) :
                     scene[coll][i].label # "" =>
                        \E k \in CmdsOf("label") :
                           drawList[k].coll = coll /\ drawList[k].item = i
            /\ CmdsOf("scalebar") # {}

\* The overlay pass is over on a canvas resized to half scale: the wall
\* (1135,50,15,700), whose vertical dimension line lies at x = 1155, has it.
C29_Witness ==
    /\ pc = "imguiRender"
    /\ resized # NoResize
    /\ 2 * scaleX = ScaleDen
    /\ flags.showDimensions
    /\ \E i \in 1..Len(scene.walls) :
          scene.walls[i].x = 1135 /\ DimOf("walls", i, "v") # <<>>

\* ------------------------------------------------------------------- C30
\* The pushVertex calls one logged call of the client makes.
PushesOf(c) ==
    CASE c.call = "pushVertex" -> 1
      [] c.call \in {"addRectTriangles", "addRectTextured"} -> 6
      [] c.call = "addRectLines" -> 8
      [] c.call = "addCircleTriangles" -> 3 * c.segments
      [] OTHER -> 0

\* The pushVertex calls made since the last begin().
RECURSIVE PushesIn(_)
PushesIn(log) == IF log = <<>> THEN 0 ELSE PushesOf(Head(log)) + PushesIn(Tail(log))

\* vertexCount counts the pushes since the last begin(), and the float list
\* holds 8 values for each of them.
CountMatchesPushes ==
    /\ triBuf.vertexCount = PushesIn(glLog)
    /\ SpanSum(triBuf.data, 1, Len(triBuf.data)) = triBuf.vertexCount
    /\ DataBytes(triBuf) = FloatsPerVertex * triBuf.vertexCount * SizeofFloat

\* A step of the client: begin() empties the list, zeroes the count and keeps
\* vao, vbo and texture; pushVertex appends its vertex after the ones already
\* held and adds one to the count; no call reorders what was pushed.
BufferStep ==
    /\ triBuf'.vao = triBuf.vao /\ triBuf'.vbo = triBuf.vbo
    /\ triBuf'.texture = triBuf.texture
    /\ (glLog # <<>> /\ glLog' = <<>>) =>
          triBuf'.data = <<>> /\ triBuf'.vertexCount = 0
    /\ glLog' # <<>> =>
          /\ Len(triBuf'.data) >= Len(triBuf.data)
          /\ SubSeq(triBuf'.data, 1, Len(triBuf.data)) = triBuf.data
    /\ (Len(glLog') = Len(glLog) + 1 /\ glLog'[Len(glLog')].call = "pushVertex") =>
          /\ \E col \in ClientColors :
                triBuf'.data = Append(triBuf.data, Vertex(7, 9, col, 0, 0))
          /\ triBuf'.vertexCount = triBuf.vertexCount + 1

\* C30: after any sequence of begin() and pushVertex() calls (made directly
\* or by the geometry helpers) vertexCount is the number of pushVertex calls
\* since the last begin() and the float list holds 8 * vertexCount values in
\* push order; begin() resets both and leaves vao, vbo and texture unchanged.
C30_CountAndData == [](CountMatchesPushes) /\ [][BufferStep]_vars

\* Two pushVertex calls since the last begin(), on an initialised buffer.
C30_Witness ==
    /\ Len(glLog) = 2
    /\ glLog[1].call = "pushVertex" /\ glLog[2].call = "pushVertex"
    /\ triBuf.vertexCount = 2 /\ Len(triBuf.data) = 2
    /\ triBuf.data[1].col # triBuf.data[2].col
    /\ triBuf.vao # 0 /\ triBuf.vbo # 0

====
